---- MODULE Spec2Model ----
(***************************************************************************)
(* firestore-db-and-auth: the credential / token lifecycle.                *)
(*                                                                         *)
(*   SpecSA      service_account::Session (sessions.rs 460-569) shared by  *)
(*               several tasks, with the wall clock advancing.             *)
(*   SpecUser    user::Session (sessions.rs 70-138) shared by several      *)
(*               tasks, the refresh endpoint as the environment.           *)
(*   SpecVerify  Credentials' key store and verify_access_token            *)
(*               (credentials.rs 171-256, jwt.rs 197-245), the JWKS        *)
(*               endpoint as the environment.                              *)
(*   SpecByAccessToken, SpecPreconditions  the same key store with         *)
(*               user::Session::by_access_token and the signing paths.     *)
(*   SpecMint    the claim sets built by create_jwt and its callers.       *)
(*   SpecCodec   the value codec (firebase_rest_to_rust.rs).               *)
(*   SpecDocuments  documents::write and delete with Firestore as the      *)
(*               environment, and the classification of its responses.     *)
(*   SpecPem     pem_to_der (credentials.rs 50-71) on texts of PEM pieces. *)
(*   SpecNew     user::Session::new (sessions.rs 176-225).                 *)
(*   SpecSAFail  SpecSA with a signer that can fail.                       *)
(*   SpecList    List and AsyncList (documents/list.rs) over the pages a   *)
(*               server answers.                                           *)
(*   SpecEntry   pod_to_document and document_to_pod on every input.       *)
(*   SpecLocks   the locks of a session and its credentials.               *)
(*                                                                         *)
(* Time is counted in ticks of 1/TicksPerMinute minute.  An Option<T> is   *)
(* the set {} (None) or {v} (Some(v)).                                     *)
(***************************************************************************)
EXTENDS Integers, Sequences, FiniteSets, TLC

VARIABLES
    now,        \* Utc::now(), in ticks
    \* ---- service_account::Session
    saJwt,      \* Session.jwt: the decoded claim set
    saToken,    \* Session.access_token_: the cached encoded string
    saTokW,     \* writer of access_token_'s RwLock (0: none)
    saJwtW,     \* writer of jwt's RwLock (0: none)
    saPc,       \* per task: where it is in access_token / access_token_unchecked
    saMaybe,    \* per task: the local maybe_jwt of access_token
    saOut,      \* the last value a call returned, and the task it returned to
    saSigned,   \* how many times a claim set was signed since Session::new
    \* ---- user::Session
    uToken,     \* Session.access_token_
    uRefresh,   \* Session.refresh_token: Option<String>
    uTokW,      \* writer of access_token_'s RwLock (0: none)
    uPc,        \* per task: where it is in access_token / access_token_unchecked
    uReq,       \* per task: the form it posted to the refresh endpoint, if in flight
    uOut,       \* the last value a call returned, and the task it returned to
    uBatch,     \* what happened since access_token() was last called with no call running
    \* ---- Credentials and the JWKS endpoint
    kPub,       \* Keys.pub_key: key id -> verification key
    kExpires,   \* Keys.pub_key_expires_at: Option<DateTime>
    kSecret,    \* Keys.secret: Option<signing key>
    vPc,        \* where the caller is in verify_access_token / download_google_jwks
    vCall,      \* the call in progress: its operation, its token, the requests it sent
    vResult,    \* what the last call returned
    \* ---- token construction
    mOut,       \* the last token built: the operation, its arguments, its outcome
    \* ---- documents
    codec,      \* the last value converted: the input, the direction, the output
    dStore,     \* the Firestore database: document path -> stored fields
    dOut,       \* the last document operation: its request, the response, its result
    \* ---- further operations
    pem,        \* pem_to_der: its input and its result
    uNew,       \* user::Session::new: its arguments, the requests it sent, its result
    list,       \* a List / AsyncList over a collection, and what it has yielded
    locks       \* the locks of a session and its credentials, and where each task is

saVars == <<saJwt, saToken, saTokW, saJwtW, saPc, saMaybe, saOut, saSigned>>
uVars == <<uToken, uRefresh, uTokW, uPc, uReq, uOut, uBatch>>
vVars == <<kPub, kExpires, kSecret, vPc, vCall, vResult>>
mVars == <<mOut>>
dVars == <<codec, dStore, dOut>>
xVars == <<pem, uNew, list, locks>>
vars == <<now, saVars, uVars, vVars, mVars, dVars, xVars>>

\* The value of a variable of an operation that has not been called.
Idle == [pc |-> "idle"]

----------------------------------------------------------------------------
(* Bounds *)
TicksPerMinute == 2
NumTasks == 2
SAMaxNowMin == 52
UMaxNowMin == 3
UInitLeftMin == 1
VMaxNow == 4
PMaxNow == 2
MMaxNowMin == 52
MaxScopes == 2
IntBits == 6
MaxLen == 1
MaxPemTokens == 5
MaxBatchCalls == 3

Tasks == 1..NumTasks

(* Program constants *)
RenewAfterMinutes == 50
HourMinutes == 60
RefreshToleranceMinutes == 10
DefaultExpirationMinutes == 120

Min(m) == m * TicksPerMinute

\* chrono::Duration::num_minutes: whole minutes, truncated toward zero.
NumMinutes(d) == IF d >= 0 THEN d \div TicksPerMinute ELSE -((-d) \div TicksPerMinute)

----------------------------------------------------------------------------
(* Credentials and token construction *)

JWT_AUDIENCE_FIRESTORE == "https://firestore.googleapis.com/google.firestore.v1.Firestore"
JWT_AUDIENCE_IDENTITY == "https://identitytoolkit.googleapis.com/google.identity.identitytoolkit.v1.IdentityToolkit"

\* The service account of the model (tests/service-account-test.json).
Cred == [project_id |-> "p", private_key_id |-> "kidSA", client_email |-> "svc@p",
         client_id |-> "cid", api_key |-> "api_key"]

\* The key pair compute_secret derives from Cred.private_key.
CredKeyPair == "keySA"

\* The fold of create_jwt over the scope iterator: acc + x + " ".
RECURSIVE FoldScope(_, _)
FoldScope(acc, s) == IF s = <<>> THEN acc ELSE FoldScope(acc \o <<Head(s), " ">>, Tail(s))

\* create_jwt with the subject taken from the user id when one is given.
CreateJwtSubjectUser(cred, scope, duration, client_id, user_id, audience, t) ==
    [alg |-> "RS256", kid |-> {cred.private_key_id}, iss |-> {cred.client_email},
     aud |-> {audience}, sub |-> IF user_id = {} THEN {cred.client_email} ELSE user_id,
     exp |-> {t + duration}, iat |-> {t}, jti |-> {},
     scope |-> {FoldScope(<<>>, s) : s \in scope}, client_id |-> client_id, uid |-> user_id]

\* create_jwt: header and claim set of a new, decoded token.
CreateJwt(cred, scope, duration, client_id, user_id, audience, t) ==
    [alg |-> "RS256",
     kid |-> {cred.private_key_id},
     iss |-> {cred.client_email},
     aud |-> {audience},
     sub |-> {cred.client_email},
     exp |-> {t + duration},
     iat |-> {t},
     jti |-> {},
     scope |-> {FoldScope(<<>>, s) : s \in scope},
     client_id |-> client_id,
     uid |-> user_id]

\* The audience and the scopes of the assertion session_cookie builds.
SESSION_COOKIE_AUDIENCE == "https://accounts.google.com/o/oauth2/token"

SessionCookieScope ==
    <<"https://www.googleapis.com/auth/cloud-platform",
      "https://www.googleapis.com/auth/firebase.database",
      "https://www.googleapis.com/auth/firebase.messaging",
      "https://www.googleapis.com/auth/identitytoolkit",
      "https://www.googleapis.com/auth/userinfo.email">>

\* scope.join(" ")
RECURSIVE JoinScope(_)
JoinScope(s) ==
    IF s = <<>> THEN <<>>
    ELSE IF Len(s) = 1 THEN <<Head(s)>>
    ELSE <<Head(s), " ">> \o JoinScope(Tail(s))

\* session_cookie::create_jwt_encoded: header and claim set of the assertion.
SessionCookieJwt(cred, duration, t) ==
    [alg |-> "RS256",
     kid |-> {cred.private_key_id},
     iss |-> {cred.client_email},
     aud |-> {SESSION_COOKIE_AUDIENCE},
     sub |-> {cred.client_email},
     exp |-> {t + duration},
     iat |-> {t},
     jti |-> {},
     scope |-> {JoinScope(SessionCookieScope)},
     client_id |-> {},
     uid |-> {}]

\* A claim set with nothing in it, the payload of a string that is no token.
NoClaims ==
    [alg |-> "", kid |-> {}, iss |-> {}, aud |-> {}, sub |-> {}, exp |-> {}, iat |-> {},
     jti |-> {}, scope |-> {}, client_id |-> {}, uid |-> {}]

\* jwt.encode(secret)?.encoded()?.encode(): the compact string, signed by `secret`.
Encode(jwt, secret) == [tag |-> "jwt", claims |-> jwt, sig |-> {secret}]

\* A String in the middle of being overwritten.
PartialToken == [tag |-> "partial", claims |-> NoClaims, sig |-> {}]
\* String::new()
EmptyString == [tag |-> "empty", claims |-> NoClaims, sig |-> {}]

\* The operations that sign a token with the credentials' secret, and the
\* claim set each builds from its argument at time t.
SigningOps == {"Session::new", "by_user_id", "session_cookie", "Credentials::verify"}

SigningJwt(op, arg, t) ==
    CASE op = "Session::new" ->
            CreateJwt(Cred, {}, HourMinutes * TicksPerMinute, {}, {}, JWT_AUDIENCE_FIRESTORE, t)
      [] op = "by_user_id" ->
            CreateJwt(Cred, {}, HourMinutes * TicksPerMinute, {}, {arg.user_id},
                      JWT_AUDIENCE_IDENTITY, t)
      [] op = "session_cookie" -> SessionCookieJwt(Cred, arg.duration, t)
      [] op = "Credentials::verify" ->
            CreateJwt(Cred, {<<"admin">>}, HourMinutes * TicksPerMinute, {Cred.client_id}, {},
                      JWT_AUDIENCE_IDENTITY, t)
      [] OTHER -> CreateJwt(Cred, arg.scope, arg.duration, {}, {}, arg.audience, t)

\* Signing that does not ask whether the secret is there.
SignResultUnchecked(jwt, secret) == [res |-> "Ok", token |-> {Encode(jwt, CredKeyPair)}]

\* secret.as_ref().ok_or("No private key added via add_keypair_key!")?, then
\* jwt.encode(secret): the error and no token, or the signed token.
SignResult(jwt, secret) ==
    IF secret = {} THEN [res |-> "NoSecret", token |-> {}]
    ELSE [res |-> "Ok", token |-> {Encode(jwt, k) : k \in secret}]

\* No call has returned yet.
NoOut == [task |-> 0, value |-> EmptyString]

----------------------------------------------------------------------------
(* jwt_update_expiry_if *)

\* The age taken in clock ticks where the threshold is in minutes.
JwtIsStaleInTicks(jwt, expire_in_minutes, t) ==
    \A i \in jwt.iat : t - i > expire_in_minutes

\* The test of jwt_update_expiry_if: no issued_at, or one more than
\* expire_in_minutes whole minutes old.
JwtIsStale(jwt, expire_in_minutes, t) ==
    \A i \in jwt.iat : NumMinutes(t - i) > expire_in_minutes

\* The claim set jwt_update_expiry_if leaves behind.
JwtUpdateExpiryIf(jwt, expire_in_minutes, t) ==
    IF JwtIsStale(jwt, expire_in_minutes, t)
    THEN [jwt EXCEPT !.iat = {t}, !.exp = {t + Min(HourMinutes)}]
    ELSE jwt

----------------------------------------------------------------------------
(* service_account::Session *)

\* Session::new(credentials) at time 0, after compute_secret.
InitSASession ==
    /\ saJwt = CreateJwt(Cred, {}, Min(HourMinutes), {}, {}, JWT_AUDIENCE_FIRESTORE, 0)
    /\ saToken = Encode(CreateJwt(Cred, {}, Min(HourMinutes), {}, {}, JWT_AUDIENCE_FIRESTORE, 0),
                        CredKeyPair)
    /\ saTokW = 0
    /\ saJwtW = 0
    /\ saPc = [t \in Tasks |-> "idle"]
    /\ saMaybe = [t \in Tasks |-> {}]
    /\ saOut = NoOut
    /\ saSigned = 0

\* A task calls access_token() and queues for the write lock of access_token_.
SACall(t) ==
    /\ saPc[t] = "idle"
    /\ saPc' = [saPc EXCEPT ![t] = "w_tok"]
    /\ UNCHANGED <<now, saJwt, saToken, saTokW, saJwtW, saMaybe, saOut, saSigned, uVars, vVars, mVars, dVars, xVars>>

\* access_token entered without waiting for the write lock.
SATokWriteFreeNoLock == TRUE

\* tokio RwLock::write on access_token_ is granted when nobody holds the lock
\* (a reader holds it only within one step of the model).
SATokWriteFree == saTokW = 0

SALockToken(t) ==
    /\ saPc[t] = "w_tok"
    /\ SATokWriteFree
    /\ saTokW' = t
    /\ saPc' = [saPc EXCEPT ![t] = "w_jwt"]
    /\ UNCHANGED <<now, saJwt, saToken, saJwtW, saMaybe, saOut, saSigned, uVars, vVars, mVars, dVars, xVars>>

SALockJwt(t) ==
    /\ saPc[t] = "w_jwt"
    /\ saJwtW = 0
    /\ saJwtW' = t
    /\ saPc' = [saPc EXCEPT ![t] = "upd"]
    /\ UNCHANGED <<now, saJwt, saToken, saTokW, saMaybe, saOut, saSigned, uVars, vVars, mVars, dVars, xVars>>

\* jwt_update_expiry_if(&mut jwt, 50); when it answers false, maybe_jwt is
\* None and the jwt lock is dropped at the end of the block.
SAUpdateExpiry(t) ==
    /\ saPc[t] = "upd"
    /\ saJwt' = JwtUpdateExpiryIf(saJwt, RenewAfterMinutes, now)
    /\ IF JwtIsStale(saJwt, RenewAfterMinutes, now)
       THEN /\ saPc' = [saPc EXCEPT ![t] = "sign"]
            /\ UNCHANGED <<saJwtW, saMaybe>>
       ELSE /\ saPc' = [saPc EXCEPT ![t] = "ret"]
            /\ saMaybe' = [saMaybe EXCEPT ![t] = {}]
            /\ saJwtW' = 0
    /\ UNCHANGED <<now, saToken, saTokW, saOut, saSigned, uVars, vVars, mVars, dVars, xVars>>

\* credentials.keys ... .secret.as_ref().and_then(|secret| jwt.clone().encode(secret).ok())
\* The secret is Some: Session::new fails without it and nothing clears it.
SASign(t) ==
    /\ saPc[t] = "sign"
    /\ saMaybe' = [saMaybe EXCEPT ![t] = {Encode(saJwt, CredKeyPair)}]
    /\ saSigned' = saSigned + 1
    /\ saJwtW' = 0
    /\ saPc' = [saPc EXCEPT ![t] = "store"]
    /\ UNCHANGED <<now, saJwt, saToken, saTokW, saOut, uVars, vVars, mVars, dVars, xVars>>

\* *access_token = v.encode(): the String is overwritten in place, which
\* takes two steps of the model.
SAStoreBegin(t) ==
    /\ saPc[t] = "store"
    /\ saToken' = PartialToken
    /\ saPc' = [saPc EXCEPT ![t] = "store2"]
    /\ UNCHANGED <<now, saJwt, saTokW, saJwtW, saMaybe, saOut, saSigned, uVars, vVars, mVars, dVars, xVars>>

SAStoreEnd(t) ==
    /\ saPc[t] = "store2"
    /\ saToken' = CHOOSE v \in saMaybe[t] : TRUE
    /\ saPc' = [saPc EXCEPT ![t] = "ret"]
    /\ UNCHANGED <<now, saJwt, saTokW, saJwtW, saMaybe, saOut, saSigned, uVars, vVars, mVars, dVars, xVars>>

\* access_token.clone(), and the write guard is dropped.
SAReturn(t) ==
    /\ saPc[t] = "ret"
    /\ saOut' = [task |-> t, value |-> saToken]
    /\ saTokW' = IF saTokW = t THEN 0 ELSE saTokW
    /\ saMaybe' = [saMaybe EXCEPT ![t] = {}]
    /\ saPc' = [saPc EXCEPT ![t] = "idle"]
    /\ UNCHANGED <<now, saJwt, saToken, saJwtW, saSigned, uVars, vVars, mVars, dVars, xVars>>

\* A task calls access_token_unchecked() and queues for the read lock.
SAUncheckedCall(t) ==
    /\ saPc[t] = "idle"
    /\ saPc' = [saPc EXCEPT ![t] = "r_tok"]
    /\ UNCHANGED <<now, saJwt, saToken, saTokW, saJwtW, saMaybe, saOut, saSigned, uVars, vVars, mVars, dVars, xVars>>

\* RwLock::read on access_token_ is granted when no writer holds the lock.
SATokReadFree == saTokW = 0

\* self.access_token_.read().await.clone()
SAUncheckedRead(t) ==
    /\ saPc[t] = "r_tok"
    /\ SATokReadFree
    /\ saOut' = [task |-> t, value |-> saToken]
    /\ saPc' = [saPc EXCEPT ![t] = "idle"]
    /\ UNCHANGED <<now, saJwt, saToken, saTokW, saJwtW, saMaybe, saSigned, uVars, vVars, mVars, dVars, xVars>>

\* The wall clock advances.
SATick ==
    /\ now < Min(SAMaxNowMin)
    /\ now' = now + 1
    /\ UNCHANGED <<saVars, uVars, vVars, mVars, dVars, xVars>>

NextSA ==
    \/ SATick
    \/ \E t \in Tasks :
          \/ SACall(t)
          \/ SALockToken(t)
          \/ SALockJwt(t)
          \/ SAUpdateExpiry(t)
          \/ SASign(t)
          \/ SAStoreBegin(t)
          \/ SAStoreEnd(t)
          \/ SAReturn(t)
          \/ SAUncheckedCall(t)
          \/ SAUncheckedRead(t)

----------------------------------------------------------------------------
(* user::Session *)

\* The key pair of securetoken@system.gserviceaccount.com and its key id.
GoogleKeyPair == "keyG"
GoogleKid == "kidG"

\* An id token of the user, as the token endpoints issue them: valid for one
\* hour from `t` (expires_in).
IdToken(t, exp) ==
    Encode([alg |-> "RS256", kid |-> {GoogleKid}, iss |-> {"https://securetoken.google.com/p"},
            aud |-> {Cred.project_id}, sub |-> {"uid"}, exp |-> {exp}, iat |-> {t},
            jti |-> {}, scope |-> {}, client_id |-> {}, uid |-> {}], GoogleKeyPair)

\* The refresh token by_refresh_token and by_user_id put in the session.
RefreshString == [tag |-> "refresh", claims |-> NoClaims, sig |-> {}]

\* is_expired: no expiry claim, or one passed by a whole minute more than the tolerance.
IsExpired(access_token, tolerance_in_minutes, t) ==
    \A e \in access_token.claims.exp : NumMinutes(t - e) - tolerance_in_minutes > 0

\* RefreshTokenToAccessTokenResponse, as far as access_token reads it.
RefreshResponse(t) == [id_token |-> IdToken(t, t + Min(HourMinutes))]

\* The second argument access_token gives get_new_access_token.
RefreshArgument(session_token, session_refresh) == session_token

\* get_new_access_token's form: grant_type and refresh_token, posted to
\* refresh_to_access_endpoint(api_key).
RefreshForm(api_key, refresh_token) ==
    [api_key |-> api_key, grant_type |-> "refresh_token", refresh_token |-> refresh_token]

NoBatch ==
    [calls |-> 0, tasks |-> {}, done |-> {}, sent |-> 0, failed |-> FALSE, outs |-> {},
     expired |-> FALSE]

\* No user session in use.
InitUserIdle ==
    /\ uToken = EmptyString
    /\ uRefresh = {}
    /\ uTokW = 0
    /\ uPc = [t \in Tasks |-> "idle"]
    /\ uReq = [t \in Tasks |-> {}]
    /\ uOut = NoOut
    /\ uBatch = NoBatch

\* A session built at time 0 by by_refresh_token or by_user_id(.., true)
\* (refresh_token Some) or by by_access_token or by_user_id(.., false) (None),
\* around an id token with UInitLeftMin minutes left.
InitUserSession ==
    /\ uToken = IdToken(0, Min(UInitLeftMin))
    /\ uRefresh \in {{}, {RefreshString}}
    /\ uTokW = 0
    /\ uPc = [t \in Tasks |-> "idle"]
    /\ uReq = [t \in Tasks |-> {}]
    /\ uOut = NoOut
    /\ uBatch = NoBatch

UActive == {t \in Tasks : uPc[t] \in {"w_tok", "net"}}

\* A task calls access_token() and queues for the write lock.
UCall(t) ==
    /\ uPc[t] = "idle"
    /\ UActive # {} => uBatch.calls < MaxBatchCalls
    /\ uPc' = [uPc EXCEPT ![t] = "w_tok"]
    /\ uBatch' = IF UActive = {}
                 THEN [NoBatch EXCEPT !.calls = 1, !.tasks = {t},
                                      !.expired = IsExpired(uToken, 0, now)]
                 ELSE [uBatch EXCEPT !.calls = @ + 1, !.tasks = @ \cup {t}, !.done = @ \ {t}]
    /\ UNCHANGED <<now, saVars, vVars, uToken, uRefresh, uTokW, uReq, uOut, mVars, dVars, xVars>>

\* access_token entered without waiting for the write lock.
UTokWriteFreeNoLock == TRUE

\* RwLock::write on access_token_ is granted when nobody holds the lock.
UTokWriteFree == uTokW = 0

\* The write lock is granted and the token is still good: jwt.clone().
UReturnCached(t) ==
    /\ uPc[t] = "w_tok"
    /\ UTokWriteFree
    /\ ~IsExpired(uToken, 0, now)
    /\ uOut' = [task |-> t, value |-> uToken]
    /\ uPc' = [uPc EXCEPT ![t] = "idle"]
    /\ uBatch' = [uBatch EXCEPT !.done = @ \cup {t}, !.outs = @ \cup {uToken}]
    /\ UNCHANGED <<now, saVars, vVars, uToken, uRefresh, uTokW, uReq, mVars, dVars, xVars>>

\* The write lock is granted and the token has expired: get_new_access_token
\* posts its form and awaits the response, the lock held.
USendRefresh(t) ==
    /\ uPc[t] = "w_tok"
    /\ UTokWriteFree
    /\ IsExpired(uToken, 0, now)
    /\ uTokW' = t
    /\ uReq' = [uReq EXCEPT ![t] = {RefreshForm(Cred.api_key, RefreshArgument(uToken, uRefresh))}]
    /\ uPc' = [uPc EXCEPT ![t] = "net"]
    /\ uBatch' = [uBatch EXCEPT !.sent = @ + 1]
    /\ UNCHANGED <<now, saVars, vVars, uToken, uRefresh, uOut, mVars, dVars, xVars>>

\* Ok(response): *jwt = response.id_token.clone(); return response.id_token
URefreshOk(t) ==
    /\ uPc[t] = "net"
    /\ uToken' = RefreshResponse(now).id_token
    /\ uOut' = [task |-> t, value |-> RefreshResponse(now).id_token]
    /\ uTokW' = IF uTokW = t THEN 0 ELSE uTokW
    /\ uReq' = [uReq EXCEPT ![t] = {}]
    /\ uPc' = [uPc EXCEPT ![t] = "idle"]
    /\ uBatch' = [uBatch EXCEPT !.done = @ \cup {t},
                                !.outs = @ \cup {RefreshResponse(now).id_token}]
    /\ UNCHANGED <<now, saVars, vVars, uRefresh, mVars, dVars, xVars>>

\* A failed refresh that also empties the stored token.
TokenAfterFailedRefreshCleared(token) == EmptyString

\* The else branch of access_token assigns nothing to *jwt.
TokenAfterFailedRefresh(token) == token

\* Err(_), from send() or from json(): return String::new()
URefreshFail(t) ==
    /\ uPc[t] = "net"
    /\ uToken' = TokenAfterFailedRefresh(uToken)
    /\ uOut' = [task |-> t, value |-> EmptyString]
    /\ uTokW' = IF uTokW = t THEN 0 ELSE uTokW
    /\ uReq' = [uReq EXCEPT ![t] = {}]
    /\ uPc' = [uPc EXCEPT ![t] = "idle"]
    /\ uBatch' = [uBatch EXCEPT !.done = @ \cup {t}, !.outs = @ \cup {EmptyString},
                                !.failed = TRUE]
    /\ UNCHANGED <<now, saVars, vVars, uRefresh, mVars, dVars, xVars>>

\* A task calls access_token_unchecked() and queues for the read lock.
UUncheckedCall(t) ==
    /\ uPc[t] = "idle"
    /\ uPc' = [uPc EXCEPT ![t] = "r_tok"]
    /\ UNCHANGED <<now, saVars, vVars, uToken, uRefresh, uTokW, uReq, uOut, uBatch, mVars, dVars, xVars>>

\* self.access_token_.read().await.clone()
UUncheckedRead(t) ==
    /\ uPc[t] = "r_tok"
    /\ uTokW = 0
    /\ uOut' = [task |-> t, value |-> uToken]
    /\ uPc' = [uPc EXCEPT ![t] = "idle"]
    /\ UNCHANGED <<now, saVars, vVars, uToken, uRefresh, uTokW, uReq, uBatch, mVars, dVars, xVars>>

\* The wall clock advances.
UTick ==
    /\ now < Min(UMaxNowMin)
    /\ now' = now + 1
    /\ UNCHANGED <<saVars, uVars, vVars, mVars, dVars, xVars>>

NextUser ==
    \/ UTick
    \/ \E t \in Tasks :
          \/ UCall(t)
          \/ UReturnCached(t)
          \/ USendRefresh(t)
          \/ URefreshOk(t)
          \/ URefreshFail(t)
          \/ UUncheckedCall(t)
          \/ UUncheckedRead(t)

----------------------------------------------------------------------------
(* Credentials: the key store, and verify_access_token *)

\* The JWK sets the endpoint serves: the service account's (its key is there
\* until it is deleted) and securetoken@system.gserviceaccount.com's, which
\* also lists an entry without key id.
JwksOfAccount(published) ==
    IF published THEN {[kid |-> {Cred.private_key_id}, key |-> CredKeyPair]} ELSE {}

JwksOfGoogle == {[kid |-> {GoogleKid}, key |-> GoogleKeyPair], [kid |-> {}, key |-> "keyAnon"]}

NoKeys == [k \in {} |-> ""]

\* Keys.pub_key.get(kid)
Lookup(pub_key, kid) == IF kid \in DOMAIN pub_key THEN {pub_key[kid]} ELSE {}

\* add_jwks_public_keys: every entry that has a key id is inserted under it.
AddJwksPublicKeys(pub_key, jwkset) ==
    LET added == UNION {e.kid : e \in jwkset}
    IN  [k \in DOMAIN pub_key \cup added |->
            IF k \in added THEN (CHOOSE e \in jwkset : e.kid = {k}).key ELSE pub_key[k]]

\* should_refresh with unwrap_or(true): a table without expiry counts as stale.
ShouldRefreshWhenNoExpiry(pub_key_expires_at, t) ==
    \A e \in pub_key_expires_at : e - t < Min(RefreshToleranceMinutes)

\* decode_secret's should_refresh: an expiry is set and is less than ten
\* minutes after now.
ShouldRefresh(pub_key_expires_at, t) ==
    \E e \in pub_key_expires_at : e - t < Min(RefreshToleranceMinutes)

\* download_google_jwks: the smaller of the two max-ages, each defaulting to two hours.
ExpiresAfter(max_age_client, max_age_public) ==
    LET c == IF max_age_client = {} THEN Min(DefaultExpirationMinutes)
             ELSE CHOOSE d \in max_age_client : TRUE
        g == IF max_age_public = {} THEN Min(DefaultExpirationMinutes)
             ELSE CHOOSE d \in max_age_public : TRUE
    IN  IF c < g THEN c ELSE g

\* The max-age a response may carry in Cache-Control.
MaxAges == {{}, {Min(RefreshToleranceMinutes) + 1}}

\* into_decoded given another algorithm than the one create_jwt declares.
DeclaredAlgorithmHS256 == "HS256"

\* The algorithm verify_access_token gives into_decoded.
DeclaredAlgorithm == "RS256"

\* into_decoded: the header names the declared algorithm and the signature is
\* that of the key pair `secret` is the public half of.
SignatureOk(token, secret) ==
    /\ token.claims.alg = DeclaredAlgorithm
    /\ token.sig = {secret}

\* ClaimPresenceOptions of verify_access_token: issued_at, expiry, issuer,
\* audience and subject are Required.
ClaimsPresent(c) ==
    c.iat # {} /\ c.exp # {} /\ c.iss # {} /\ c.aud # {} /\ c.sub # {}

\* A validation that does not look at the expiry.
ClaimsInTimeNoExpiry(c, t) == \A i \in c.iat : ~(i > t)

\* The temporal checks of RegisteredClaims::validate under the default
\* options: not expired, not issued in the future.
ClaimsInTime(c, t) ==
    /\ \A e \in c.exp : ~(t > e)
    /\ \A i \in c.iat : ~(i > t)

Failure(kind) == [res |-> kind, claims |-> [scope |-> {}, client_id |-> {}, uid |-> {}],
                  audience |-> {}, subject |-> {}]

\* TokenValidationResult
Success(c) == [res |-> "Ok", claims |-> [scope |-> c.scope, client_id |-> c.client_id, uid |-> c.uid],
               audience |-> c.aud, subject |-> c.sub]

\* Claim validation done before the signature check.
VerifyWithSecretClaimsFirst(token, secret, t) ==
    IF secret = {} THEN Failure("UnknownKey")
    ELSE IF ~(ClaimsPresent(token.claims) /\ ClaimsInTime(token.claims, t))
    THEN Failure("ClaimValidation")
    ELSE IF ~(\E k \in secret : SignatureOk(token, k)) THEN Failure("BadSignature")
    ELSE Success(token.claims)

\* verify_access_token from the answer of decode_secret on: ok_or("No secret
\* for kid"), into_decoded, validate, and the result.
VerifyWithSecret(token, secret, t) ==
    IF secret = {} THEN Failure("UnknownKey")
    ELSE IF ~(\E k \in secret : SignatureOk(token, k)) THEN Failure("BadSignature")
    ELSE IF ~(ClaimsPresent(token.claims) /\ ClaimsInTime(token.claims, t))
    THEN Failure("ClaimValidation")
    ELSE Success(token.claims)

\* create_jwt_encoded
CreateJwtEncoded(cred, scope, duration, client_id, user_id, audience, t) ==
    Encode(CreateJwt(cred, scope, duration, client_id, user_id, audience, t), CredKeyPair)

\* The token Credentials::verify mints, for either audience.
Minted(audience, t) ==
    CreateJwtEncoded(Cred, {<<"admin">>}, Min(HourMinutes), {Cred.client_id}, {}, audience, t)

\* A token changed in its key id, its signature and its claims.
Variant(token, k, sg, c) ==
    [token EXCEPT
       !.claims.kid = IF k = "none" THEN {} ELSE IF k = "unknown" THEN {"kidX"} ELSE @,
       !.sig = IF sg = "bad" THEN {"keyX"} ELSE @,
       !.claims.exp = IF c = "expired" THEN {-1} ELSE IF c = "expiring" THEN {Min(1)} ELSE @,
       !.claims.sub = IF c = "nosub" THEN {} ELSE @]

\* Tokens of other origin, all issued at time 0: an id token of Google's, and
\* copies of an identity token of the service account, changed or not.
ForeignTokens ==
    {IdToken(0, Min(HourMinutes))}
    \cup {Variant(Minted(JWT_AUDIENCE_IDENTITY, 0), v[1], v[2], v[3]) :
             v \in {<<"ok", "ok", "expiring">>, <<"ok", "ok", "nosub">>,
                    <<"ok", "bad", "ok">>, <<"ok", "bad", "expired">>,
                    <<"unknown", "ok", "ok">>, <<"unknown", "bad", "expired">>,
                    <<"none", "ok", "ok">>, <<"none", "bad", "expired">>}}

\* The tokens a caller may hand to verify_access_token at time t: the two the
\* credentials mint there and then (once the secret is computed), and the
\* foreign ones.
TokensAt(t) ==
    {Minted(a, t) : a \in IF kSecret = {} THEN {} ELSE {JWT_AUDIENCE_FIRESTORE, JWT_AUDIENCE_IDENTITY}}
    \cup ForeignTokens

\* The secret decode_secret answers for the token's key id.
DecodedSecret(pub_key, token) == UNION {Lookup(pub_key, k) : k \in token.claims.kid}

\* A call in progress and the last call's outcome. reqs counts the requests the
\* call sent; held records whether pub_key had an entry for the token's key id
\* when the call was made.
NoCall == [op |-> "none", token |-> EmptyString, reqs |-> 0, max_age_client |-> {}, held |-> FALSE]
NoResult == [op |-> "none", token |-> EmptyString, out |-> Failure("none"), reqs |-> 0,
             held |-> FALSE, session |-> {}]

\* What by_access_token makes of the answer of verify_access_token: the error
\* goes to the caller with `?`, a success becomes a Session; the other
\* operations build no session.
SessionOf(op, access_token, out) ==
    IF op = "by_access_token" /\ out.res = "Ok"
    THEN {[user_id |-> out.subject, project_id_ |-> out.audience,
           access_token_ |-> access_token, refresh_token |-> {}]}
    ELSE {}

\* A Credentials object deserialized from its JSON, nothing computed yet.
InitCredentials ==
    /\ kPub = NoKeys
    /\ kExpires = {}
    /\ kSecret = {}
    /\ vPc = "idle"
    /\ vCall = NoCall
    /\ vResult = NoResult

\* compute_secret
ComputeSecret ==
    /\ vPc = "idle"
    /\ kSecret = {}
    /\ kSecret' = {CredKeyPair}
    /\ UNCHANGED <<now, saVars, uVars, kPub, kExpires, vPc, vCall, vResult, mVars, dVars, xVars>>

\* with_jwkset / add_jwks_public_keys with one of the two key set files.
AddJwks ==
    /\ vPc = "idle"
    /\ \E jwks \in {JwksOfAccount(TRUE), JwksOfGoogle} :
          kPub' = AddJwksPublicKeys(kPub, jwks)
    /\ UNCHANGED <<now, saVars, uVars, kExpires, kSecret, vPc, vCall, vResult, mVars, dVars, xVars>>

\* verify_access_token(credentials, access_token) is called:
\* AuthClaimsJWT::new_encoded(&access_token).
VBegin ==
    /\ vPc = "idle"
    /\ \E token \in TokensAt(now) :
          vCall' = [NoCall EXCEPT !.op = "verify", !.token = token,
                                  !.held = DecodedSecret(kPub, token) # {}]
    /\ vPc' = "hdr"
    /\ UNCHANGED <<now, saVars, uVars, kPub, kExpires, kSecret, vResult, mVars, dVars, xVars>>

\* unverified_header and key_id.ok_or("No jwt kid"); then decode_secret
\* computes should_refresh and, if it is set, download_google_jwks empties
\* pub_key and sends its first request.
VHeader ==
    /\ vPc = "hdr"
    /\ IF vCall.token.claims.kid = {}
       THEN /\ vResult' = [op |-> vCall.op, token |-> vCall.token, out |-> Failure("NoKeyId"),
                            reqs |-> 0, held |-> vCall.held, session |-> {}]
            /\ vPc' = "idle"
            /\ vCall' = NoCall
            /\ UNCHANGED kPub
       ELSE IF ShouldRefresh(kExpires, now)
       THEN /\ kPub' = NoKeys
            /\ vCall' = [vCall EXCEPT !.reqs = 1]
            /\ vPc' = "dl1"
            /\ UNCHANGED vResult
       ELSE /\ vPc' = "lookup"
            /\ UNCHANGED <<kPub, vCall, vResult>>
    /\ UNCHANGED <<now, saVars, uVars, kExpires, kSecret, mVars, dVars, xVars>>

\* download_google_jwks called by itself (download_jwkset).
DownloadBegin ==
    /\ vPc = "idle"
    /\ kPub' = NoKeys
    /\ vCall' = [NoCall EXCEPT !.op = "download", !.reqs = 1]
    /\ vPc' = "dl1"
    /\ UNCHANGED <<now, saVars, uVars, kExpires, kSecret, vResult, mVars, dVars, xVars>>

\* The service account's key set arrives and is added; the second request is sent.
Download1Ok ==
    /\ vPc = "dl1"
    /\ \E published \in BOOLEAN : kPub' = AddJwksPublicKeys(kPub, JwksOfAccount(published))
    /\ \E max_age_client \in MaxAges :
          vCall' = [vCall EXCEPT !.reqs = @ + 1, !.max_age_client = max_age_client]
    /\ vPc' = "dl2"
    /\ UNCHANGED <<now, saVars, uVars, kExpires, kSecret, vResult, mVars, dVars, xVars>>

\* A download or JWKSet::new fails: the error is returned with `?`.
DownloadFail ==
    /\ vPc \in {"dl1", "dl2"}
    /\ vResult' = [op |-> vCall.op, token |-> vCall.token, out |-> Failure("DownloadFailed"),
                   reqs |-> vCall.reqs, held |-> vCall.held, session |-> {}]
    /\ vPc' = "idle"
    /\ vCall' = NoCall
    /\ UNCHANGED <<now, saVars, uVars, kPub, kExpires, kSecret, mVars, dVars, xVars>>

\* Google's key set arrives and is added, and the expiry is set; a verify
\* call goes on to its lookup.
Download2Ok ==
    /\ vPc = "dl2"
    /\ kPub' = AddJwksPublicKeys(kPub, JwksOfGoogle)
    /\ \E max_age_public \in MaxAges :
          kExpires' = {now + ExpiresAfter(vCall.max_age_client, max_age_public)}
    /\ IF vCall.op = "download"
       THEN /\ vResult' = [op |-> "download", token |-> EmptyString, out |-> Failure("Ok"),
                           reqs |-> vCall.reqs, held |-> FALSE, session |-> {}]
            /\ vPc' = "idle"
            /\ vCall' = NoCall
       ELSE /\ vPc' = "lookup"
            /\ vCall' = [vCall EXCEPT !.max_age_client = {}]
            /\ UNCHANGED vResult
    /\ UNCHANGED <<now, saVars, uVars, kSecret, mVars, dVars, xVars>>

\* The lookup of decode_secret and the rest of verify_access_token.
VLookup ==
    /\ vPc = "lookup"
    /\ LET out == VerifyWithSecret(vCall.token, DecodedSecret(kPub, vCall.token), now)
       IN  vResult' = [op |-> vCall.op, token |-> vCall.token, out |-> out,
                       reqs |-> vCall.reqs, held |-> vCall.held,
                       session |-> SessionOf(vCall.op, vCall.token, out)]
    /\ vPc' = "idle"
    /\ vCall' = NoCall
    /\ UNCHANGED <<now, saVars, uVars, kPub, kExpires, kSecret, mVars, dVars, xVars>>

\* user::Session::by_access_token(credentials, access_token) is called: it
\* calls verify_access_token with the token.
ByAccessToken ==
    /\ vPc = "idle"
    /\ \E token \in TokensAt(now) :
          vCall' = [NoCall EXCEPT !.op = "by_access_token", !.token = token,
                                  !.held = DecodedSecret(kPub, token) # {}]
    /\ vPc' = "hdr"
    /\ UNCHANGED <<now, saVars, uVars, kPub, kExpires, kSecret, vResult, mVars, dVars, xVars>>

\* The wall clock advances.
VTick ==
    /\ now < VMaxNow
    /\ now' = now + 1
    /\ UNCHANGED <<saVars, uVars, vVars, mVars, dVars, xVars>>

NextVerify ==
    \/ VTick
    \/ ComputeSecret
    \/ AddJwks
    \/ VBegin
    \/ VHeader
    \/ DownloadBegin
    \/ Download1Ok
    \/ DownloadFail
    \/ Download2Ok
    \/ VLookup

\* One of the signing operations is called, up to the point where its token
\* is signed or the missing secret is reported.
Sign ==
    /\ vPc = "idle"
    /\ \E op \in SigningOps :
          LET arg == [user_id |-> "u1", duration |-> 5 * TicksPerMinute]
              r == SignResult(SigningJwt(op, arg, now), kSecret)
          IN  vResult' = [op |-> op,
                          token |-> IF r.token = {} THEN EmptyString
                                    ELSE CHOOSE tk \in r.token : TRUE,
                          out |-> Failure(r.res), reqs |-> 0, held |-> FALSE, session |-> {}]
    /\ UNCHANGED <<now, saVars, uVars, kPub, kExpires, kSecret, vPc, vCall, mVars, dVars, xVars>>

\* The wall clock advances.
PTick ==
    /\ now < PMaxNow
    /\ now' = now + 1
    /\ UNCHANGED <<saVars, uVars, vVars, mVars, dVars, xVars>>

NextPreconditions ==
    \/ PTick
    \/ ComputeSecret
    \/ AddJwks
    \/ Sign
    \/ VBegin
    \/ ByAccessToken
    \/ VHeader
    \/ DownloadBegin
    \/ Download1Ok
    \/ DownloadFail
    \/ Download2Ok
    \/ VLookup

NextByAccessToken ==
    \/ VTick
    \/ ComputeSecret
    \/ AddJwks
    \/ ByAccessToken
    \/ VHeader
    \/ DownloadBegin
    \/ Download1Ok
    \/ DownloadFail
    \/ Download2Ok
    \/ VLookup

----------------------------------------------------------------------------
(* Token construction: create_jwt and the operations that sign *)

\* str::split(" "): the pieces between the separators, an empty piece where two
\* separators meet or the string begins or ends with one.
RECURSIVE SplitAcc(_, _, _)
SplitAcc(str, cur, acc) ==
    IF str = <<>> THEN acc \cup {cur}
    ELSE IF Head(str) = " " THEN SplitAcc(Tail(str), <<>>, acc \cup {cur})
    ELSE SplitAcc(Tail(str), Append(cur, Head(str)), acc)

\* TokenValidationResult::get_scopes
GetScopes(claims) == UNION {SplitAcc(v, <<>>, {}) : v \in claims.scope}

\* Scope names a caller may pass, and the scope arguments built from them:
\* None, or Some(iterator) over the first n names.
ScopeNames == <<"admin", "read", "write", "list">>

ScopeArgs == {{}} \cup {{SubSeq(ScopeNames, 1, n)} : n \in 0..MaxScopes}

MintDurations == {5 * TicksPerMinute, HourMinutes * TicksPerMinute}

NoArg == [user_id |-> "", duration |-> 0, scope |-> {}, audience |-> ""]

NoMint == [op |-> "none", arg |-> NoArg, res |-> "none", jwt |-> {}, token |-> {}]

\* The arguments each signing operation may be called with.
ArgsOf(op) ==
    CASE op = "by_user_id" -> {[NoArg EXCEPT !.user_id = "u1"]}
      [] op = "session_cookie" -> {[NoArg EXCEPT !.duration = d] : d \in MintDurations}
      [] op = "create_jwt_encoded" ->
            {[NoArg EXCEPT !.scope = sc, !.duration = d, !.audience = a] :
                sc \in ScopeArgs, d \in MintDurations,
                a \in {JWT_AUDIENCE_FIRESTORE, JWT_AUDIENCE_IDENTITY}}
      [] OTHER -> {NoArg}

\* A signing operation, or create_jwt_encoded itself, builds its claim set
\* and signs it.
MSign ==
    /\ \E op \in SigningOps \cup {"create_jwt_encoded"} : \E arg \in ArgsOf(op) :
          LET jwt == SigningJwt(op, arg, now)
              r == SignResult(jwt, kSecret)
          IN  mOut' = [op |-> op, arg |-> arg, res |-> r.res, jwt |-> {jwt}, token |-> r.token]
    /\ UNCHANGED <<now, saVars, uVars, vVars, dVars, xVars>>

\* access_token() on the session Session::new built: the claim set is renewed
\* when jwt_update_expiry_if says so, and signed again.
MAccessToken ==
    /\ mOut.op \in {"Session::new", "access_token"}
    /\ mOut.res = "Ok"
    /\ LET old == CHOOSE j \in mOut.jwt : TRUE
           jwt == JwtUpdateExpiryIf(old, RenewAfterMinutes, now)
       IN  mOut' = [op |-> "access_token", arg |-> NoArg, res |-> "Ok", jwt |-> {jwt},
                    token |-> IF jwt # old THEN {Encode(jwt, k) : k \in kSecret}
                              ELSE mOut.token]
    /\ UNCHANGED <<now, saVars, uVars, vVars, dVars, xVars>>

\* The wall clock advances.
MTick ==
    /\ now < MMaxNowMin * TicksPerMinute
    /\ now' = now + 1
    /\ UNCHANGED <<saVars, uVars, vVars, mVars, dVars, xVars>>

NextMint ==
    \/ MTick
    \/ ComputeSecret
    \/ MSign
    \/ MAccessToken

----------------------------------------------------------------------------
(* The value codec (firebase_rest_to_rust.rs)                              *)
(*                                                                         *)
(* A serde_json::Value is a record with its tag t and one payload field    *)
(* per tag.  A 64-bit integer is modelled with IntBits bits.  A Number     *)
(* holds an integer (serde_json's PosInt(u64) and NegInt(i64)) or a finite *)
(* double, which is counted in halves (n = 3 is 1.5).  A decimal string is *)
(* the sequence of its characters.  A map is the set of its entries        *)
(* [k, v], one per key.                                                    *)

\* The serde_json::Value of tag t with payload x.
Json(t, x) ==
    [t |-> t,
     b |-> IF t = "bool" THEN x ELSE FALSE,
     n |-> IF t \in {"int", "float"} THEN x ELSE 0,
     s |-> IF t = "str" THEN x ELSE "",
     arr |-> IF t = "arr" THEN x ELSE <<>>,
     obj |-> IF t = "obj" THEN x ELSE {}]

JNull == Json("null", 0)

\* i64::MIN and i64::MAX
IMin == -(2 ^ (IntBits - 1))
IMax == 2 ^ (IntBits - 1) - 1

DigitChars == <<"0", "1", "2", "3", "4", "5", "6", "7", "8", "9">>

RECURSIVE Digits(_)
Digits(n) ==
    IF n < 10 THEN <<DigitChars[n + 1]>>
    ELSE Digits(n \div 10) \o <<DigitChars[(n % 10) + 1]>>

\* A to_string that loses the sign.
I64ToStringNoSign(n) == Digits(IF n < 0 THEN -n ELSE n)

\* i64::to_string
I64ToString(n) == IF n < 0 THEN <<"-">> \o Digits(-n) ELSE Digits(n)

\* The digits of s read from the left onto acc, the sign applied to each
\* digit; {} once a character is no digit or the value leaves IMin..IMax.
RECURSIVE ParseDigits(_, _, _)
ParseDigits(s, sign, acc) ==
    IF s = <<>> THEN {acc}
    ELSE IF \A d \in 1..10 : DigitChars[d] # Head(s) THEN {}
    ELSE LET digit == (CHOOSE d \in 1..10 : DigitChars[d] = Head(s)) - 1
             next == acc * 10 + sign * digit
         IN  IF next < IMin \/ next > IMax THEN {}
             ELSE ParseDigits(Tail(s), sign, next)

\* str::parse::<i64>: Ok(n) is {n}, Err is {}.
ParseI64(s) ==
    IF s = <<>> THEN {}
    ELSE IF Head(s) \in {"+", "-"}
         THEN IF Tail(s) = <<>> THEN {}
              ELSE ParseDigits(Tail(s), IF Head(s) = "-" THEN -1 ELSE 1, 0)
         ELSE ParseDigits(s, 1, 0)

\* dto::Value::default(): every variant None.
DefaultValue ==
    [bytes_value |-> {}, timestamp_value |-> {}, geo_point_value |-> {},
     reference_value |-> {}, double_value |-> {}, map_value |-> {},
     string_value |-> {}, boolean_value |-> {}, array_value |-> {},
     integer_value |-> {}, null_value |-> {}]

\* serde_json's Value::as_i64
AsI64(v) == IF v.t = "int" /\ v.n <= IMax THEN {v.n} ELSE {}

RECURSIVE SerdeValueToFirebaseValue(_)
SerdeValueToFirebaseValue(v) ==
    IF v.t = "float" THEN [DefaultValue EXCEPT !.double_value = {v.n}]
    ELSE IF AsI64(v) # {}
    THEN [DefaultValue EXCEPT !.integer_value = {I64ToString(n) : n \in AsI64(v)}]
    ELSE IF v.t = "obj"
    THEN [DefaultValue EXCEPT !.map_value =
            {[fields |-> {{[k |-> e.k, v |-> SerdeValueToFirebaseValue(e.v)] : e \in v.obj}}]}]
    ELSE IF v.t = "str" THEN [DefaultValue EXCEPT !.string_value = {v.s}]
    ELSE IF v.t = "bool" THEN [DefaultValue EXCEPT !.boolean_value = {v.b}]
    ELSE IF v.t = "arr"
    THEN [DefaultValue EXCEPT !.array_value =
            {[values |-> {[i \in 1..Len(v.arr) |-> SerdeValueToFirebaseValue(v.arr[i])]}]}]
    ELSE DefaultValue

RECURSIVE FirebaseValueToSerdeValue(_)
FirebaseValueToSerdeValue(v) ==
    IF v.timestamp_value # {} THEN Json("str", CHOOSE s \in v.timestamp_value : TRUE)
    ELSE IF v.integer_value # {}
    THEN LET four == ParseI64(CHOOSE s \in v.integer_value : TRUE)
         IN  IF four # {} THEN Json("int", CHOOSE n \in four : TRUE) ELSE JNull
    ELSE IF v.double_value # {} THEN Json("float", CHOOSE d \in v.double_value : TRUE)
    ELSE IF v.map_value # {}
    THEN LET map_value == CHOOSE m \in v.map_value : TRUE
         IN  Json("obj", UNION {{[k |-> e.k, v |-> FirebaseValueToSerdeValue(e.v)] : e \in map_fields}
                                    : map_fields \in map_value.fields})
    ELSE IF v.string_value # {} THEN Json("str", CHOOSE s \in v.string_value : TRUE)
    ELSE IF v.boolean_value # {} THEN Json("bool", CHOOSE b \in v.boolean_value : TRUE)
    ELSE IF v.array_value # {}
    THEN LET array_value == CHOOSE a \in v.array_value : TRUE
         IN  IF array_value.values = {} THEN Json("arr", <<>>)
             ELSE LET values == CHOOSE a \in array_value.values : TRUE
                  IN  Json("arr", [i \in 1..Len(values) |-> FirebaseValueToSerdeValue(values[i])])
    ELSE JNull

\* dto::Document: its name and its Option<HashMap<String, Value>> fields.
PodToDocument(pod) ==
    LET map_value == CHOOSE m \in SerdeValueToFirebaseValue(pod).map_value : TRUE
    IN  [name |-> "", fields |-> map_value.fields]

\* serde_json::from_value for one field of T declared with type ty, one of
\* i64, Option<i64> and serde_json::Value, given the set v holding the
\* field's value if the object has the key: the field's value as {x}, None
\* as {JNull}, and {} for an error.
FromValueField(ty, v) ==
    IF ty = "Value" THEN v
    ELSE IF ty = "i64" THEN {x \in v : AsI64(x) # {}}
    ELSE IF v = {} \/ v = {JNull} THEN {JNull}
    ELSE {x \in v : AsI64(x) # {}}

NoPod == [res |-> "None", pod |-> {}, doc |-> {}]

\* document_to_pod::<T>, T given as the set of its fields [k, ty].  A key of
\* the document that T does not declare is ignored.
DocumentToPod(document, T) ==
    LET fields == CHOOSE f \in document.fields : TRUE
        extra == {[k |-> e.k, v |-> FirebaseValueToSerdeValue(e.v)] : e \in fields}
        field(f) == FromValueField(f.ty, {e.v : e \in {x \in extra : x.k = f.k}})
    IN  IF \E f \in T : field(f) = {}
        THEN [res |-> "SerdeVerbose", pod |-> {}, doc |-> {document.name}]
        ELSE [res |-> "Ok", doc |-> {},
              pod |-> {Json("obj", {[k |-> f.k, v |-> CHOOSE x \in field(f) : TRUE] : f \in T})}]

FieldNames == {"a_string", "an_int"}

\* The arrays of at most MaxLen elements and the objects of at most MaxLen
\* fields over the values S.
Containers(S) ==
    {Json("arr", a) : a \in UNION {[1..n -> S] : n \in 0..MaxLen}}
    \cup UNION {{Json("obj", {[k |-> x, v |-> f[x]] : x \in K}) : f \in [K -> S]}
                    : K \in {K \in SUBSET FieldNames : Cardinality(K) <= MaxLen}}

Scalars ==
    {JNull, Json("bool", TRUE), Json("str", "abc"), Json("float", 3),
     Json("int", IMin), Json("int", 12), Json("int", IMax), Json("int", IMax + 1)}

\* The host values: scalars, objects and arrays of scalars, and objects and
\* arrays of objects and arrays.
HostValues ==
    Scalars \cup Containers(Scalars \cup Containers({JNull, Json("int", IMin),
                                                      Json("int", IMax + 1)}))

DocumentName == "projects/p/databases/(default)/documents/tests/doc"

\* The documents a read returns: field an_int with an integerValue string,
\* alone or in an array, or with another variant.
ServerDocuments ==
    LET strings == {I64ToString(12), I64ToString(IMin), I64ToString(IMax + 1), <<"+", "7">>,
                    <<"9", "9">>, <<>>, <<"-">>, <<"1", ".", "5">>}
        ints == {[DefaultValue EXCEPT !.integer_value = {s}] : s \in strings}
        values == ints
                  \cup {[DefaultValue EXCEPT !.null_value = {"NULL_VALUE"}],
                        [DefaultValue EXCEPT !.string_value = {"abc"}]}
                  \cup {[DefaultValue EXCEPT !.array_value = {[values |-> {<<x>>}]}] : x \in ints}
    IN  {[name |-> DocumentName, fields |-> {{[k |-> "an_int", v |-> x]}}] : x \in values}

NoCodec ==
    [pc |-> "idle", host |-> JNull, fb |-> DefaultValue, out |-> JNull,
     doc |-> [name |-> "", fields |-> {}], ty |-> {}, pod |-> NoPod]

\* serde_value_to_firebase_value(&host)
CEncode ==
    /\ codec.pc = "host"
    /\ codec' = [codec EXCEPT !.pc = "fb", !.fb = SerdeValueToFirebaseValue(codec.host)]
    /\ UNCHANGED <<now, saVars, uVars, vVars, mVars, dStore, dOut, xVars>>

\* firebase_value_to_serde_value(&fb)
CDecode ==
    /\ codec.pc = "fb"
    /\ codec' = [codec EXCEPT !.pc = "decoded", !.out = FirebaseValueToSerdeValue(codec.fb)]
    /\ UNCHANGED <<now, saVars, uVars, vVars, mVars, dStore, dOut, xVars>>

\* pod_to_document(&host) for a record, its fields declared as
\* serde_json::Value
CPodToDocument ==
    /\ codec.pc = "host"
    /\ codec.host.t = "obj"
    /\ codec' = [codec EXCEPT !.pc = "written", !.doc = PodToDocument(codec.host),
                              !.ty = {[k |-> e.k, ty |-> "Value"] : e \in codec.host.obj}]
    /\ UNCHANGED <<now, saVars, uVars, vVars, mVars, dStore, dOut, xVars>>

\* document_to_pod::<T>(&doc), of a document just written or just received
CDocumentToPod ==
    /\ codec.pc \in {"written", "received"}
    /\ codec' = [codec EXCEPT !.pc = IF codec.pc = "written" THEN "reread" ELSE "read",
                              !.pod = DocumentToPod(codec.doc, codec.ty)]
    /\ UNCHANGED <<now, saVars, uVars, vVars, mVars, dStore, dOut, xVars>>

NextCodec == CEncode \/ CDecode \/ CPodToDocument \/ CDocumentToPod

----------------------------------------------------------------------------
(* Documents (documents/write.rs, documents/delete.rs, errors.rs)          *)
(*                                                                         *)
(* The documents live in the collection "tests".  A path and a context     *)
(* string are the sequence of their segments, "" being <<>>.  The body of  *)
(* a response is its text, whether it is a JSON object, and the error      *)
(* envelope {"error": {"code", "message"}} if it has one.                  *)

DocIds == {"service_test", "non_existing"}

\* No document stored.
EmptyStore == [d \in DocIds |-> {}]

\* The records written: DemoDTO, DemoDTOPartial with a_string None and
\* skipped, and a record without fields.
Records ==
    {Json("obj", {[k |-> "a_string", v |-> Json("str", "abcd")],
                  [k |-> "an_int", v |-> Json("int", 14)]}),
     Json("obj", {[k |-> "an_int", v |-> Json("int", 16)]}),
     Json("obj", {})}

NoError ==
    [res |-> "Ok", code |-> 0, message |-> "", status |-> 0, body |-> "", context |-> <<>>]

NoDocOp ==
    [op |-> "none", id |-> {}, record |-> JNull, merge |-> FALSE, fail |-> FALSE,
     req |-> [method |-> "none", id |-> {}, exists |-> {}, mask |-> {}, fields |-> {}],
     resp |-> [status |-> 0, body |-> [text |-> "", json |-> FALSE, error |-> {}]],
     class |-> NoError, result |-> NoError]

\* JoinableIterator::join(",") over the keys in the order the map yields them
RECURSIVE JoinKeys(_)
JoinKeys(keys) ==
    IF keys = <<>> THEN <<>>
    ELSE IF Len(keys) = 1 THEN <<Head(keys)>>
    ELSE <<Head(keys), ",">> \o JoinKeys(Tail(keys))

\* A write that sends no update mask and no precondition.
WriteRequestNoMask(document_id, record, merge, keys) ==
    [method |-> IF document_id # {} THEN "PATCH" ELSE "POST",
     id |-> document_id, exists |-> {}, mask |-> {},
     fields |-> PodToDocument(record).fields]

\* The request write() sends: the url's document id and query, and the body.
WriteRequest(document_id, record, merge, keys) ==
    LET firebase_document == PodToDocument(record)
        merged == merge /\ firebase_document.fields # {}
    IN  [method |-> IF document_id # {} THEN "PATCH" ELSE "POST",
         id |-> document_id,
         exists |-> IF merged THEN {TRUE} ELSE {},
         mask |-> IF merged THEN {JoinKeys(keys)} ELSE {},
         fields |-> firebase_document.fields]

\* The request delete() sends.
DeleteRequest(id, fail_if_not_existing) ==
    [method |-> "DELETE", id |-> {id},
     exists |-> IF fail_if_not_existing THEN {TRUE} ELSE {},
     mask |-> {}, fields |-> {}]

Envelope(code, message) ==
    [text |-> "envelope", json |-> TRUE, error |-> {[code |-> code, message |-> message]}]

\* What Firestore may do with a request: each outcome is the store
\* afterwards and the response.  A failed precondition is a 404; an update
\* mask sets the fields it names and keeps the others; without one the
\* fields are replaced; a request can fail for reasons of its own.
ServerOutcomes(store, req) ==
    LET ok(s) == [store |-> s,
                  resp |-> [status |-> 200,
                            body |-> [text |-> "document", json |-> TRUE, error |-> {}]]]
        failed(status, body) == [store |-> store, resp |-> [status |-> status, body |-> body]]
        paths == UNION {{m[i] : i \in 1..Len(m)} \ {","} : m \in req.mask}
        body == UNION req.fields
        patched(old) == IF req.mask = {} THEN body
                        ELSE {e \in old : e.k \notin paths} \cup {e \in body : e.k \in paths}
        served ==
            IF req.method = "POST"
            THEN IF req.mask # {}
                 THEN {failed(400, Envelope(400, "Invalid argument"))}
                 ELSE {ok([store EXCEPT ![d] = {body}]) : d \in {x \in DocIds : store[x] = {}}}
            ELSE LET d == CHOOSE x \in req.id : TRUE
                 IN  IF req.exists # {} /\ store[d] = {}
                     THEN {failed(404, Envelope(404, "No document to update"))}
                     ELSE IF req.method = "DELETE" THEN {ok([store EXCEPT ![d] = {}])}
                     ELSE {ok([store EXCEPT ![d] = {patched(UNION store[d])}])}
    IN  served \cup
        {failed(502, Envelope(503, "The service is currently unavailable.")),
         failed(400, [text |-> "{}", json |-> TRUE, error |-> {}]),
         failed(204, [text |-> "", json |-> FALSE, error |-> {}]),
         failed(200, Envelope(500, "Internal error"))}

\* A classification that takes the code from the HTTP status.
ExtractGoogleApiErrorStatusCode(resp, context) ==
    IF resp.status = 200 THEN NoError
    ELSE IF resp.body.json /\ resp.body.error # {}
    THEN LET google_api_error == CHOOSE e \in resp.body.error : TRUE
         IN  [NoError EXCEPT !.res = "APIError", !.code = resp.status,
                             !.message = google_api_error.message, !.context = context]
    ELSE [NoError EXCEPT !.res = "UnexpectedResponse", !.status = resp.status,
                         !.body = resp.body.text, !.context = context]

\* extract_google_api_error_async and extract_google_api_error_intern: the
\* body read into GoogleRESTApiErrorWrapper if it is JSON.
ExtractGoogleApiError(resp, context) ==
    IF resp.status = 200 THEN NoError
    ELSE IF resp.body.json /\ resp.body.error # {}
    THEN LET google_api_error == CHOOSE e \in resp.body.error : TRUE
         IN  [NoError EXCEPT !.res = "APIError", !.code = google_api_error.code,
                             !.message = google_api_error.message, !.context = context]
    ELSE [NoError EXCEPT !.res = "UnexpectedResponse", !.status = resp.status,
                         !.body = resp.body.text, !.context = context]

\* documents::write(auth, "tests", document_id, &record, WriteOptions{merge})
DWrite ==
    \E document_id \in {{}} \cup {{d} : d \in DocIds}, record \in Records, merge \in BOOLEAN :
      LET names == {e.k : e \in record.obj}
      IN  \E keys \in {s \in [1..Cardinality(names) -> names] :
                          \A i, j \in DOMAIN s : s[i] = s[j] => i = j} :
            LET req == WriteRequest(document_id, record, merge, keys)
                context == IF document_id = {} THEN <<>>
                           ELSE <<CHOOSE d \in document_id : TRUE>>
            IN  \E o \in ServerOutcomes(dStore, req) :
                  LET class == ExtractGoogleApiError(o.resp, context)
                  IN  /\ dStore' = o.store
                      /\ dOut' = [op |-> "write", id |-> document_id, record |-> record,
                                  merge |-> merge, fail |-> FALSE,
                                  req |-> req, resp |-> o.resp, class |-> class,
                                  \* the response is read as the written document
                                  result |-> IF class.res = "Ok" /\ o.resp.body.text # "document"
                                             THEN [NoError EXCEPT !.res = "Generic"]
                                             ELSE class]
                  /\ UNCHANGED <<now, saVars, uVars, vVars, mVars, codec, xVars>>

\* documents::delete(auth, "tests/<id>", fail_if_not_existing)
DDelete ==
    \E id \in DocIds, fail_if_not_existing \in BOOLEAN :
      LET req == DeleteRequest(id, fail_if_not_existing)
      IN  \E o \in ServerOutcomes(dStore, req) :
            /\ dStore' = o.store
            /\ dOut' = [op |-> "delete", id |-> {id}, record |-> JNull, merge |-> FALSE,
                        fail |-> fail_if_not_existing,
                        req |-> req, resp |-> o.resp,
                        class |-> ExtractGoogleApiError(o.resp, <<"tests", id>>),
                        result |-> ExtractGoogleApiError(o.resp, <<"tests", id>>)]
            /\ UNCHANGED <<now, saVars, uVars, vVars, mVars, codec, xVars>>

NextDocuments == DWrite \/ DDelete

----------------------------------------------------------------------------
(* Specifications *)

InitSA ==
    /\ now = 0
    /\ mOut = NoMint
    /\ codec = NoCodec /\ dStore = EmptyStore /\ dOut = NoDocOp
    /\ pem = Idle /\ uNew = Idle /\ locks = Idle /\ list = Idle
    /\ InitSASession
    /\ InitUserIdle
    /\ InitCredentials

SpecSA == InitSA /\ [][NextSA]_vars

InitUser ==
    /\ now = 0
    /\ mOut = NoMint
    /\ codec = NoCodec /\ dStore = EmptyStore /\ dOut = NoDocOp
    /\ pem = Idle /\ uNew = Idle /\ locks = Idle /\ list = Idle
    /\ InitSASession
    /\ InitUserSession
    /\ InitCredentials

SpecUser == InitUser /\ [][NextUser]_vars

InitVerify ==
    /\ now = 0
    /\ mOut = NoMint
    /\ codec = NoCodec /\ dStore = EmptyStore /\ dOut = NoDocOp
    /\ pem = Idle /\ uNew = Idle /\ locks = Idle /\ list = Idle
    /\ InitSASession
    /\ InitUserIdle
    /\ InitCredentials

SpecVerify == InitVerify /\ [][NextVerify]_vars

SpecByAccessToken == InitVerify /\ [][NextByAccessToken]_vars

SpecPreconditions == InitVerify /\ [][NextPreconditions]_vars

\* Credentials without secret that have built nothing, or credentials with
\* their secret and a service-account session built at time 0 that is one
\* minute short of its renewal age.
InitMint ==
    /\ now = (RenewAfterMinutes - 1) * TicksPerMinute
    /\ codec = NoCodec /\ dStore = EmptyStore /\ dOut = NoDocOp
    /\ pem = Idle /\ uNew = Idle /\ locks = Idle /\ list = Idle
    /\ InitSASession
    /\ InitUserIdle
    /\ kPub = NoKeys /\ kExpires = {} /\ vPc = "idle" /\ vCall = NoCall /\ vResult = NoResult
    /\ \/ kSecret = {} /\ mOut = NoMint
       \/ /\ kSecret = {CredKeyPair}
          /\ LET jwt == SigningJwt("Session::new", NoArg, 0)
             IN  mOut = [op |-> "Session::new", arg |-> NoArg, res |-> "Ok", jwt |-> {jwt},
                         token |-> SignResult(jwt, kSecret).token]

SpecMint == InitMint /\ [][NextMint]_vars

\* A host value to convert, or a received document to read into a record
\* with the field an_int.
InitCodec ==
    /\ now = 0
    /\ mOut = NoMint
    /\ InitSASession
    /\ InitUserIdle
    /\ InitCredentials
    /\ dStore = EmptyStore /\ dOut = NoDocOp
    /\ pem = Idle /\ uNew = Idle /\ locks = Idle /\ list = Idle
    /\ \/ \E x \in HostValues : codec = [NoCodec EXCEPT !.pc = "host", !.host = x]
       \/ \E d \in ServerDocuments, ty \in {"i64", "Option<i64>", "Value"} :
             codec = [NoCodec EXCEPT !.pc = "received", !.doc = d,
                                     !.ty = {[k |-> "an_int", ty |-> ty]}]

SpecCodec == InitCodec /\ [][NextCodec]_vars

\* An empty database.
InitDocuments ==
    /\ now = 0
    /\ mOut = NoMint
    /\ InitSASession
    /\ InitUserIdle
    /\ InitCredentials
    /\ codec = NoCodec /\ dStore = EmptyStore /\ dOut = NoDocOp
    /\ pem = Idle /\ uNew = Idle /\ locks = Idle /\ list = Idle

SpecDocuments == InitDocuments /\ [][NextDocuments]_vars

----------------------------------------------------------------------------
(* Claims about service_account::Session *)

\* The age of the stored jwt's issued-at, in ticks.
SAAge == CHOOSE a \in {now - i : i \in saJwt.iat} : TRUE

\* The pcs at which a task holds the write lock of access_token_.
SAInCall == {"w_jwt", "upd", "sign", "store", "store2", "ret"}

\* C2: whenever access_token() checks a jwt whose issued-at is 50 minutes old
\* or older, it sets issued-at to now and expiry to now + 1 hour and goes on
\* to re-sign.
C2_RenewsAtThreshold ==
    [][\A t \in Tasks :
         (saPc[t] = "upd" /\ saPc'[t] # "upd" /\ SAAge >= Min(RenewAfterMinutes))
            => /\ saJwt'.iat = {now}
               /\ saJwt'.exp = {now + Min(HourMinutes)}
               /\ saPc'[t] = "sign"]_vars

\* C3: an access_token() call that finds the issued-at less than 50 minutes
\* old is a no-op: the check leaves the claim set, the cached string and the
\* signing count alone and sets no maybe_jwt, and the call returns the cached
\* string, which is the string the previous call returned.
C3_NoOpBelowThreshold ==
    [][\A t \in Tasks :
         /\ (saPc[t] = "upd" /\ saPc'[t] # "upd" /\ SAAge < Min(RenewAfterMinutes))
               => /\ saJwt' = saJwt
                  /\ saToken' = saToken
                  /\ saSigned' = saSigned
                  /\ saMaybe'[t] = {}
                  /\ saPc'[t] = "ret"
         /\ (saPc[t] = "ret" /\ saMaybe[t] = {} /\ saPc'[t] = "idle")
               => /\ saOut'.value = saToken
                  /\ saOut.task # 0 => saOut'.value = saOut.value
                  /\ saJwt' = saJwt
                  /\ saToken' = saToken
                  /\ saSigned' = saSigned]_vars

\* A call that found the jwt 49.5 minutes old is about to return, after an
\* earlier call has returned.
C3_Witness ==
    \E t \in Tasks :
       /\ saPc[t] = "ret"
       /\ saMaybe[t] = {}
       /\ saOut.task # 0
       /\ now = Min(RenewAfterMinutes) - 1

----------------------------------------------------------------------------
(* Claims about user::Session *)

\* All the calls of the batch have returned.
UBatchComplete == UActive = {} /\ uBatch.done = uBatch.tasks

C4_SendsRefreshToken ==
    uRefresh # {} => \A t \in Tasks : \A f \in uReq[t] : f.refresh_token \in uRefresh

\* C5: a failed exchange leaves the stored token as it was, and the failing
\* call returns the empty string.
C5_FailedRefreshKeepsToken ==
    [][\A t \in Tasks :
         URefreshFail(t) => (uToken' = uToken /\ uOut' = [task |-> t, value |-> EmptyString])]_vars

\* After a failed exchange, access_token_unchecked() returned the token the
\* session held before it.
C5_Witness ==
    /\ uBatch.failed
    /\ UActive = {}
    /\ uOut.task # 0
    /\ uOut.value = IdToken(0, Min(UInitLeftMin))
    /\ uToken = IdToken(0, Min(UInitLeftMin))

\* C6: a session without a refresh token sends no request to the token
\* endpoint, and its calls on the expired token return the empty string.
C6_NeverSelfRefreshes ==
    uRefresh = {} =>
       /\ \A t \in Tasks : uReq[t] = {}
       /\ uBatch.sent = 0
       /\ uBatch.expired => uBatch.outs \subseteq {EmptyString}

----------------------------------------------------------------------------
(* Claims about Credentials and verify_access_token *)

\* The key id of the token of the call in progress has an entry in pub_key.
VKidKnown == \E k \in vCall.token.claims.kid : k \in DOMAIN kPub

\* The tokens the credentials have signed for an API audience up to time t.
MintedTokens(t) ==
    {Minted(a, i) : a \in {JWT_AUDIENCE_FIRESTORE, JWT_AUDIENCE_IDENTITY}, i \in 0..t}

\* C8: decode_secret downloads the whole table before its lookup if and only
\* if an expiry is set and lies less than ten minutes after now; otherwise the
\* lookup is done at once on the table as it is, and a key id that is absent
\* fails the verification with the unknown-key error without any request; when
\* the table is stale it is emptied and both key sets are requested first, and
\* the lookup is done on the table the downloads made.
C8_Staleness ==
    /\ [][(vPc = "hdr" /\ vPc' # "hdr" /\ vCall.token.claims.kid # {})
            => /\ (vPc' = "dl1")
                    <=> (kExpires # {}
                         /\ \A e \in kExpires : e - now < RefreshToleranceMinutes * TicksPerMinute)
               /\ vPc' = "dl1" => (kPub' = NoKeys /\ vCall'.reqs = 1)
               /\ vPc' # "dl1" => (vPc' = "lookup" /\ kPub' = kPub /\ vCall'.reqs = 0)]_vars
    /\ [][(vPc = "lookup" /\ vPc' # "lookup")
            => /\ vCall.reqs \in {0, 2}
               /\ vResult'.reqs = vCall.reqs
               /\ (vResult'.out.res = "UnknownKey") <=> ~VKidKnown
               /\ vCall.reqs = 2 => (kExpires # {} /\ GoogleKid \in DOMAIN kPub)]_vars
    /\ [][(vPc \in {"dl1", "dl2", "lookup"} /\ vPc' = "lookup" /\ vCall.reqs > 0)
            => (vPc = "lookup" => kPub' = kPub)
               /\ (vPc # "lookup" => /\ vPc = "dl2"
                                     /\ vCall'.reqs = 2
                                     /\ DOMAIN kPub' \subseteq {Cred.private_key_id, GoogleKid}
                                     /\ kExpires' # {})]_vars

\* A stale table that had the token's key id was downloaded anew, and the
\* lookup on the new table did not find the key id.
C8_Witness ==
    /\ vPc = "idle"
    /\ vResult.op = "verify"
    /\ vResult.held
    /\ vResult.reqs = 2
    /\ vResult.out.res = "UnknownKey"

\* C9: verify_access_token reports the first failure in a fixed order: a token
\* without key id fails with the no-key-id error and neither looks up nor
\* refreshes a key; an unresolved key id fails with the unknown-key error
\* whatever the signature; a signature mismatch fails before the claims are
\* looked at; only then are issued-at, expiry, issuer, audience and subject
\* validated; success is answered only when all of these pass.
C9_CheckOrder ==
    /\ [][(vPc = "hdr" /\ vPc' # "hdr" /\ vCall.token.claims.kid = {})
            => /\ vResult'.out.res = "NoKeyId"
               /\ vResult'.reqs = 0
               /\ vPc' = "idle"
               /\ kPub' = kPub /\ kExpires' = kExpires]_vars
    /\ [][(vPc = "lookup" /\ vPc' # "lookup")
            => LET c == vCall.token.claims
                   signed == /\ c.alg = "RS256"
                             /\ \A k \in c.kid : vCall.token.sig = {kPub[k]}
                   valid == /\ c.iat # {} /\ c.exp # {} /\ c.iss # {} /\ c.aud # {} /\ c.sub # {}
                            /\ \A e \in c.exp : now <= e
                            /\ \A i \in c.iat : i <= now
               IN  vResult'.out.res =
                      IF ~VKidKnown THEN "UnknownKey"
                      ELSE IF ~signed THEN "BadSignature"
                      ELSE IF ~valid THEN "ClaimValidation"
                      ELSE "Ok"]_vars
    /\ [][(vResult' # vResult /\ vResult'.op = "verify" /\ vResult'.out.res = "Ok")
            => (vPc = "lookup" /\ vCall.token.claims.kid # {})]_vars

\* A token with a wrong signature that has also expired was answered with the
\* signature error.
C9_Witness ==
    /\ vPc = "idle"
    /\ vResult.op = "verify"
    /\ vResult.out.res = "BadSignature"
    /\ \E e \in vResult.token.claims.exp : e < now

\* The outcome of a successful verification of token.
RoundTripResult(token) ==
    [res |-> "Ok",
     claims |-> [scope |-> token.claims.scope, client_id |-> token.claims.client_id,
                 uid |-> token.claims.uid],
     audience |-> token.claims.aud,
     subject |-> {Cred.client_email}]

\* C10 as stated: a token the credentials signed for either audience verifies
\* with the same credentials whenever the table held the public key for
\* private_key_id when verification was called.
C10_RoundTrip ==
    (/\ vPc = "idle"
     /\ vResult.op = "verify"
     /\ vResult.token \in MintedTokens(now)
     /\ vResult.held)
        => vResult.out = RoundTripResult(vResult.token)

\* C10: a token the credentials signed for either audience verifies with the
\* same credentials, the result carrying its private claims, its audience and
\* the client email as subject, provided the table holds the public key for
\* private_key_id when decode_secret does its lookup and the token has not
\* expired: that is so when the table held the key at the call and no download
\* was due; when a download was due the verification fails with the download's
\* error, or with the unknown-key error if the new table lacks the key.
C10_RoundTripAtLookup ==
    /\ [][(/\ vPc = "lookup" /\ vPc' # "lookup"
           /\ vCall.token.sig = {CredKeyPair}
           /\ vCall.token.claims = CreateJwt(Cred, {<<"admin">>},
                                             (CHOOSE e \in vCall.token.claims.exp : TRUE)
                                               - (CHOOSE i \in vCall.token.claims.iat : TRUE),
                                             {Cred.client_id}, {}, 
                                             CHOOSE a \in vCall.token.claims.aud : TRUE,
                                             CHOOSE i \in vCall.token.claims.iat : TRUE)
           /\ Cred.private_key_id \in DOMAIN kPub
           /\ \A e \in vCall.token.claims.exp : now <= e)
            => vResult'.out = RoundTripResult(vCall.token)]_vars
    /\ [](( /\ vPc = "idle"
            /\ vResult.op = "verify"
            /\ vResult.token \in MintedTokens(now))
          => /\ (vResult.held /\ vResult.reqs = 0) => vResult.out = RoundTripResult(vResult.token)
             /\ vResult.out.res \in {"Ok", "UnknownKey", "DownloadFailed"}
             /\ vResult.out.res = "Ok" => vResult.out = RoundTripResult(vResult.token)
             /\ vResult.out.res = "UnknownKey" => (~vResult.held \/ vResult.reqs = 2)
             /\ vResult.out.res = "DownloadFailed" => vResult.reqs \in {1, 2})

\* A token signed for the database API was verified after the table that held
\* its key was downloaded anew.
C10_Witness ==
    /\ vPc = "idle"
    /\ vResult.op = "verify"
    /\ vResult.token \in {Minted(JWT_AUDIENCE_FIRESTORE, i) : i \in 0..now}
    /\ vResult.held
    /\ vResult.reqs = 2
    /\ vResult.out = RoundTripResult(vResult.token)

\* The token of the call in progress carries the signature of the key the
\* table has for its key id, under the algorithm verification declares.
VCorrectlySigned ==
    /\ VKidKnown
    /\ vCall.token.claims.alg = "RS256"
    /\ \A k \in vCall.token.claims.kid : vCall.token.sig = {kPub[k]}

\* C11: a call whose token has an expiry earlier than now never ends in
\* success, whether made through verify_access_token / verify_token or through
\* by_access_token, which then builds no session; when the token is correctly
\* signed for a key of the table the answer is the claim-validation error.
C11_ExpiredRejected ==
    /\ [][(vResult' # vResult /\ \E e \in vCall.token.claims.exp : e < now)
            => (vResult'.out.res # "Ok" /\ vResult'.session = {})]_vars
    /\ [][(/\ vPc = "lookup" /\ vPc' # "lookup"
           /\ \E e \in vCall.token.claims.exp : e < now
           /\ VCorrectlySigned)
            => vResult'.out.res = "ClaimValidation"]_vars

\* by_access_token was given a token the credentials signed, complete in its
\* claims but expired, and answered the claim-validation error.
C11_Witness ==
    /\ vPc = "idle"
    /\ vResult.op = "by_access_token"
    /\ vResult.token.sig = {CredKeyPair}
    /\ vResult.token.claims.sub # {}
    /\ \E e \in vResult.token.claims.exp : e < now
    /\ vResult.out.res = "ClaimValidation"
    /\ vResult.session = {}

\* C15: by_access_token sends no request whatever the state of the
\* credentials and the age of the key table, and on success its session has
\* the token's subject as user id, the token's audience as project id, the
\* given token as current token and no refresh token.
C15_NoNetwork ==
    /\ vCall.op = "by_access_token" => (vCall.reqs = 0 /\ vPc \notin {"dl1", "dl2"})
    /\ vResult.op = "by_access_token"
          => /\ vResult.reqs = 0
             /\ vResult.out.res = "Ok"
                   => vResult.session = {[user_id |-> vResult.token.claims.sub,
                                          project_id_ |-> vResult.token.claims.aud,
                                          access_token_ |-> vResult.token,
                                          refresh_token |-> {}]}

\* C12: while the credentials have no secret, each signing operation
\* (service-account Session::new, by_user_id, the session-cookie assertion,
\* Credentials::verify) answers the missing-secret error, yields no token and
\* sends nothing; while the key table is empty, each verifying operation
\* (Credentials::verify, verify_token, by_access_token) answers an error and
\* by_access_token builds no session.
C12_Preconditions ==
    /\ [][(vResult' # vResult /\ vResult'.op \in SigningOps /\ kSecret = {})
            => /\ vResult'.out.res = "NoSecret"
               /\ vResult'.token = EmptyString
               /\ vResult'.reqs = 0]_vars
    /\ [][(vResult' # vResult /\ vCall.op \in {"verify", "by_access_token"} /\ kPub = NoKeys)
            => /\ vResult'.out.res \in {"NoKeyId", "UnknownKey", "DownloadFailed"}
               /\ vResult'.session = {}]_vars
    /\ [](kSecret = {} => \A a \in {JWT_AUDIENCE_FIRESTORE, JWT_AUDIENCE_IDENTITY} :
                             Minted(a, now) \notin {vCall.token, vResult.token})

\* With the secret computed but no key set added or downloaded, a token the
\* credentials had just signed was answered with the unknown-key error.
C12_Witness ==
    /\ vPc = "idle"
    /\ kSecret # {}
    /\ kPub = NoKeys
    /\ kExpires = {}
    /\ vResult.op = "verify"
    /\ vResult.token = Minted(JWT_AUDIENCE_IDENTITY, now)
    /\ vResult.out.res = "UnknownKey"

----------------------------------------------------------------------------
(* Claims about token construction *)

\* C13 as stated: every token the library signs has the client email as
\* issuer and as subject, and JWT_AUDIENCE_FIRESTORE or JWT_AUDIENCE_IDENTITY
\* as audience.
C13_ClaimSetInvariant ==
    \A tk \in mOut.token :
        /\ tk.claims.iss = {Cred.client_email}
        /\ tk.claims.sub = {Cred.client_email}
        /\ tk.claims.aud \in {{JWT_AUDIENCE_FIRESTORE}, {JWT_AUDIENCE_IDENTITY}}

\* C13: every token the library signs has the client email as issuer and as
\* subject; the audience is JWT_AUDIENCE_FIRESTORE for the service-account
\* session token, renewed or not, JWT_AUDIENCE_IDENTITY for the custom token
\* of by_user_id and for the token of Credentials::verify, the audience given
\* to create_jwt_encoded, and the OAuth token endpoint for the session-cookie
\* assertion.
C13_ClaimSetByOperation ==
    \A tk \in mOut.token :
        /\ tk.claims.iss = {Cred.client_email}
        /\ tk.claims.sub = {Cred.client_email}
        /\ tk.sig = {CredKeyPair}
        /\ tk.claims.aud =
              IF mOut.op \in {"Session::new", "access_token"} THEN {JWT_AUDIENCE_FIRESTORE}
              ELSE IF mOut.op \in {"by_user_id", "Credentials::verify"} THEN {JWT_AUDIENCE_IDENTITY}
              ELSE IF mOut.op = "session_cookie"
              THEN {"https://accounts.google.com/o/oauth2/token"}
              ELSE {mOut.arg.audience}
        /\ mOut.op = "create_jwt_encoded"
              => mOut.arg.audience \in {JWT_AUDIENCE_FIRESTORE, JWT_AUDIENCE_IDENTITY}

\* A custom token was signed for a user id.
C13_Witness ==
    /\ mOut.op = "by_user_id"
    /\ \E tk \in mOut.token : tk.claims.uid = {"u1"} /\ tk.claims.sub = {Cred.client_email}

\* C14: the claim set create_jwt builds has expiry = issued-at + duration, a
\* scope claim that is the given scopes joined by single spaces, nothing
\* before or after, when the list is not empty and no scope claim otherwise,
\* and get_scopes on it answers exactly the scopes given.
C14_ScopeJoin ==
    mOut.op = "create_jwt_encoded"
       => \A jwt \in mOut.jwt :
             LET given == UNION {{s[i] : i \in 1..Len(s)} : s \in mOut.arg.scope}
             IN  /\ \E t \in 0..now : jwt.iat = {t} /\ jwt.exp = {t + mOut.arg.duration}
                 /\ jwt.scope = IF given = {} THEN {}
                                ELSE {JoinScope(s) : s \in mOut.arg.scope}
                 /\ GetScopes(jwt) = {<<x>> : x \in given}

----------------------------------------------------------------------------
(* Claims about the value codec *)

\* What came back for the host value that went in: the decoded value, or
\* the record read from the document the record was written to.
CodecRoundTrip ==
    /\ codec.pc = "decoded" => codec.out = codec.host
    /\ codec.pc = "reread" => codec.pod = [res |-> "Ok", pod |-> {codec.host}, doc |-> {}]

\* Every integer in v, at any depth, fits a signed 64-bit integer.
RECURSIVE IntegersSigned(_)
IntegersSigned(v) ==
    /\ v.t = "int" => v.n \in IMin..IMax
    /\ \A i \in 1..Len(v.arr) : IntegersSigned(v.arr[i])
    /\ \A e \in v.obj : IntegersSigned(e.v)

\* C16, as stated: for every host JSON value x built from strings, booleans,
\* integers, doubles, null and nested objects and arrays of these,
\* firebase_value_to_serde_value(serde_value_to_firebase_value(x)) = x, and
\* document_to_pod(pod_to_document(x)) = x for a record x.
C16_RoundTrip == CodecRoundTrip

\* C16, corrected: the round trip holds for every such host value whose
\* integers all fit a signed 64-bit integer.
C16_RoundTripSigned == IntegersSigned(codec.host) => CodecRoundTrip

\* A record was written and read back whose field holds an array with the
\* least signed integer.
C16_Witness ==
    /\ codec.pc = "reread"
    /\ codec.pod.res = "Ok"
    /\ \E e \in codec.host.obj : e.v = Json("arr", <<Json("int", IMin)>>)

\* The dto::Value variant that stands for a host value of tag t.
VariantOf(t) ==
    CASE t = "float" -> "double_value"
      [] t = "int" -> "integer_value"
      [] t = "str" -> "string_value"
      [] t = "bool" -> "boolean_value"
      [] t = "obj" -> "map_value"
      [] t = "arr" -> "array_value"
      [] t = "null" -> "null_value"

\* fb has exactly the variant of v's type, and so on for what v contains.
RECURSIVE EncodeShapeOk(_, _)
EncodeShapeOk(v, fb) ==
    /\ {f \in DOMAIN fb : fb[f] # {}} = {VariantOf(v.t)}
    /\ v = Json("int", 12) => fb.integer_value = {<<"1", "2">>}
    /\ \A m \in fb.map_value : \A fs \in m.fields :
          /\ {e.k : e \in fs} = {e.k : e \in v.obj}
          /\ \A e \in v.obj : \A g \in fs : g.k = e.k => EncodeShapeOk(e.v, g.v)
    /\ \A a \in fb.array_value : \A vs \in a.values :
          /\ Len(vs) = Len(v.arr)
          /\ \A i \in 1..Len(vs) : EncodeShapeOk(v.arr[i], vs[i])

\* C17: serde_value_to_firebase_value produces, at every nesting level, a
\* Value with exactly one variant populated, the one of the host type:
\* float -> doubleValue, integer -> integerValue with the decimal string
\* (12 -> "12"), string -> stringValue, boolean -> booleanValue, object ->
\* mapValue, array -> arrayValue, null -> nullValue.
C17_EncodeShape == codec.pc \in {"fb", "decoded"} => EncodeShapeOk(codec.host, codec.fb)

\* Some integerValue of the document, in a field or in a field's array, holds
\* a string that is no 64-bit integer.
DocHasBadInteger(document) ==
    LET bad(x) == \E s \in x.integer_value : ParseI64(s) = {}
    IN  \E fs \in document.fields : \E e \in fs :
          \/ bad(e.v)
          \/ \E a \in e.v.array_value : \E vs \in a.values : \E i \in 1..Len(vs) : bad(vs[i])

\* C18: decoding a document in which some integerValue string does not parse
\* as a 64-bit integer fails with a deserialization error that names the
\* document; the field is never decoded as null or dropped.
C18_BadIntegerFails ==
    (codec.pc = "read" /\ DocHasBadInteger(codec.doc))
        => (codec.pod.res = "SerdeVerbose" /\ codec.pod.doc = {codec.doc.name})

----------------------------------------------------------------------------
(* Claims about documents *)

\* The stored fields of document d in store s, none if it does not exist.
StoredFields(s, d) == UNION s[d]

----------------------------------------------------------------------------
(* pem_to_der (credentials.rs 50-71)                                       *)
(*                                                                         *)
(* A string is the sequence of its characters.                             *)

\* What every specification of the other operations starts from.
InitOthers ==
    /\ now = 0
    /\ mOut = NoMint
    /\ InitSASession
    /\ InitUserIdle
    /\ codec = NoCodec /\ dStore = EmptyStore /\ dOut = NoDocOp

\* The standard base64 alphabet, the character of value v at position v + 1.
Base64Chars ==
    <<"A", "B", "C", "D", "E", "F", "G", "H", "I", "J", "K", "L", "M", "N", "O", "P",
      "Q", "R", "S", "T", "U", "V", "W", "X", "Y", "Z", "a", "b", "c", "d", "e", "f",
      "g", "h", "i", "j", "k", "l", "m", "n", "o", "p", "q", "r", "s", "t", "u", "v",
      "w", "x", "y", "z", "0", "1", "2", "3", "4", "5", "6", "7", "8", "9", "+", "/">>

\* base64::decode: {bytes} for Ok, {} for Err.  Padding closes a string of
\* whole groups and may be left out; bits left over must be zero.
Base64Decode(s) ==
    LET pad == IF s # <<>> /\ s[Len(s)] = "="
               THEN IF Len(s) > 1 /\ s[Len(s) - 1] = "=" THEN 2 ELSE 1
               ELSE 0
        data == SubSeq(s, 1, Len(s) - pad)
        n == Len(data)
        known == \A i \in 1..n : \E v \in 1..64 : Base64Chars[v] = data[i]
        val(i) == (CHOOSE v \in 1..64 : Base64Chars[v] = data[i]) - 1
        bytes == (n \div 4) * 3 + (IF n % 4 = 0 THEN 0 ELSE (n % 4) - 1)
        byte(j) == LET g == 4 * (j \div 3)
                   IN  IF j % 3 = 0 THEN val(g + 1) * 4 + val(g + 2) \div 16
                       ELSE IF j % 3 = 1 THEN (val(g + 2) % 16) * 16 + val(g + 3) \div 4
                       ELSE (val(g + 3) % 4) * 64 + val(g + 4)
    IN  IF ~known \/ n % 4 = 1 \/ (pad > 0 /\ Len(s) % 4 # 0) THEN {}
        ELSE IF n % 4 = 2 /\ val(n) % 16 # 0 THEN {}
        ELSE IF n % 4 = 3 /\ val(n) % 4 # 0 THEN {}
        ELSE {[j \in 1..bytes |-> byte(j - 1)]}

\* A pem_to_der that takes the first END marker instead of the last.
PemToDerFirstEnd(pem_file_contents) ==
    LET at(s, pat) == {i \in 1..(Len(s) - Len(pat) + 1) : SubSeq(s, i, i + Len(pat) - 1) = pat}
        first(S) == CHOOSE i \in S : \A j \in S : i <= j
        dashes == <<"-", "-", "-", "-", "-">>
        begin == at(pem_file_contents, dashes \o <<"B", "E", "G", "I", "N">>)
        s1 == SubSeq(pem_file_contents, first(begin) + 10, Len(pem_file_contents))
        s2 == SubSeq(s1, first(at(s1, dashes)) + 5, Len(s1))
        end == at(s2, dashes \o <<"E", "N", "D">>)
        s3 == SubSeq(s2, 1, first(end) - 1)
        base64_body == SelectSeq(s3, LAMBDA c : c # "\n")
    IN  IF begin = {} \/ at(s1, dashes) = {} \/ end = {}
        THEN [res |-> "InvalidPem", der |-> <<>>]
        ELSE IF Base64Decode(base64_body) = {} THEN [res |-> "ExpectedBase64", der |-> <<>>]
        ELSE [res |-> "Ok", der |-> CHOOSE d \in Base64Decode(base64_body) : TRUE]

\* pem_to_der: find, str::find, str::rfind, replace("\n", "") and decode.  The
\* two errors are FirebaseError::Generic with their messages.
PemToDer(pem_file_contents) ==
    LET at(s, pat) == {i \in 1..(Len(s) - Len(pat) + 1) : SubSeq(s, i, i + Len(pat) - 1) = pat}
        first(S) == CHOOSE i \in S : \A j \in S : i <= j
        last(S) == CHOOSE i \in S : \A j \in S : i >= j
        dashes == <<"-", "-", "-", "-", "-">>
        begin == at(pem_file_contents, dashes \o <<"B", "E", "G", "I", "N">>)
        s1 == SubSeq(pem_file_contents, first(begin) + 10, Len(pem_file_contents))
        s2 == SubSeq(s1, first(at(s1, dashes)) + 5, Len(s1))
        end == at(s2, dashes \o <<"E", "N", "D">>)
        s3 == SubSeq(s2, 1, last(end) - 1)
        base64_body == SelectSeq(s3, LAMBDA c : c # "\n")
    IN  IF begin = {} \/ at(s1, dashes) = {} \/ end = {}
        THEN [res |-> "InvalidPem", der |-> <<>>]
        ELSE IF Base64Decode(base64_body) = {} THEN [res |-> "ExpectedBase64", der |-> <<>>]
        ELSE [res |-> "Ok", der |-> CHOOSE d \in Base64Decode(base64_body) : TRUE]

\* The pieces the inputs are made of: the markers, a newline and two base64
\* groups of the test's key.
PemTokens ==
    {<<"-", "-", "-", "-", "-", "B", "E", "G", "I", "N">>, <<"-", "-", "-", "-", "-">>,
     <<"-", "-", "-", "-", "-", "E", "N", "D">>, <<"\n">>,
     <<"A", "m", "t", "z">>, <<"l", "g", "=", "=">>}

RECURSIVE Concat(_)
Concat(ts) == IF ts = <<>> THEN <<>> ELSE Head(ts) \o Concat(Tail(ts))

\* The inputs: every string of at most MaxPemTokens pieces.
PemInputs == {Concat(ts) : ts \in UNION {[1..n -> PemTokens] : n \in 0..MaxPemTokens}}

\* pem_to_der(&input), called again on the same input any number of times
PemCall ==
    /\ pem.pc \in {"input", "called"}
    /\ pem' = [pc |-> "called", input |-> pem.input, out |-> PemToDer(pem.input),
               before |-> IF pem.pc = "called" THEN {pem.out} ELSE {}]
    /\ UNCHANGED <<now, saVars, uVars, vVars, mVars, dVars, uNew, list, locks>>

NextPem == PemCall

InitPem ==
    /\ InitOthers
    /\ InitCredentials
    /\ uNew = Idle /\ locks = Idle /\ list = Idle
    /\ \E s \in PemInputs : pem = [pc |-> "input", input |-> s]

SpecPem == InitPem /\ [][NextPem]_vars

\* The text between the header and the footer of s, if s has both.
PemBody(s) ==
    LET at(t, pat) == {i \in 1..(Len(t) - Len(pat) + 1) : SubSeq(t, i, i + Len(pat) - 1) = pat}
        dashes == <<"-", "-", "-", "-", "-">>
        begins == at(s, dashes \o <<"B", "E", "G", "I", "N">>)
        ends == at(s, dashes \o <<"E", "N", "D">>)
        closes == {h \in at(s, dashes) :
                      \E b \in begins : (\A y \in begins : b <= y) /\ b + 10 <= h}
    IN  {SubSeq(s, h + 5, e - 1) :
            h \in {h \in closes : begins # {} /\ \A y \in closes : h <= y},
            e \in {e \in ends : (\A y \in ends : y <= e) /\ \E h \in closes : h + 5 <= e}}

\* C21: pem_to_der returns for every input: an error when the BEGIN header,
\* the dashes closing it or the END footer after them is missing, or when
\* the text between them without its newlines is not base64, and otherwise
\* the base64 decoding of that text; a second call on the same input
\* returns what the first returned.
C21_PemTotal ==
    pem.pc = "called" =>
        LET bodies == {b \in PemBody(pem.input) : TRUE}
            texts == {SelectSeq(b, LAMBDA c : c # "\n") : b \in bodies}
        IN  /\ pem.out.res \in {"Ok", "InvalidPem", "ExpectedBase64"}
            /\ pem.out.res = "InvalidPem" <=> bodies = {}
            /\ pem.out.res = "ExpectedBase64" <=> \E t \in texts : Base64Decode(t) = {}
            /\ pem.out.res = "Ok" => \E t \in texts : Base64Decode(t) = {pem.out.der}
            /\ \A o \in pem.before : o = pem.out

\* A key with a newline inside was converted to the bytes of the test.
C21_Witness ==
    /\ pem.pc = "called" /\ pem.before # {}
    /\ \E i \in 1..Len(pem.input) : pem.input[i] = "\n"
    /\ pem.out = [res |-> "Ok", der |-> <<150>>]

----------------------------------------------------------------------------
(* user::Session::new (sessions.rs 176-225)                                *)

\* Err(e) of a constructor, and Ok(Session) with the fields that differ.
NewErr(e) == [res |-> e, user_id |-> "", access_token |-> "", refresh_token |-> {}]
NewOk(user_id, access_token, refresh_token) ==
    [res |-> "Ok", user_id |-> user_id, access_token |-> access_token,
     refresh_token |-> refresh_token]

\* A Session::new that tries the refresh token before the access token.
SessionNewRefreshFirst(arg, env) ==
    LET by_refresh_token == IF arg.refresh_token # {} /\ env.exchange THEN "Ok" ELSE "Err"
        by_access_token == IF arg.firebase_tokenid # {} /\ env.verify THEN "Ok" ELSE "Err"
        by_user_id == IF arg.user_id # {} /\ kSecret # {} /\ env.custom THEN "Ok" ELSE "Err"
        sent1 == IF arg.refresh_token # {} THEN <<"refresh">> ELSE <<>>
        sent2 == IF arg.user_id # {} /\ kSecret # {} THEN sent1 \o <<"custom">> ELSE sent1
    IN  IF by_refresh_token = "Ok"
        THEN [sent |-> sent1, out |-> NewOk("uid_of_refresh", "new_id_token", {"rotated"})]
        ELSE IF by_access_token = "Ok"
        THEN [sent |-> sent1,
              out |-> NewOk("uid_of_token", CHOOSE t \in arg.firebase_tokenid : TRUE,
                            arg.refresh_token)]
        ELSE IF by_user_id = "Ok"
        THEN [sent |-> sent2,
              out |-> NewOk(CHOOSE u \in arg.user_id : TRUE, "new_id_token", {"fresh"})]
        ELSE [sent |-> sent2, out |-> NewErr("No parameter given")]

\* Session::new with the answers env of verification and of the two token
\* endpoints: the requests it sends, in order, and what it returns.
\* by_access_token takes the user from the token's subject, by_refresh_token
\* user and refresh token from the response, by_user_id the refresh token
\* from the response; without the secret by_user_id fails before it sends.
SessionNew(arg, env) ==
    LET by_access_token == IF arg.firebase_tokenid # {} /\ env.verify THEN "Ok" ELSE "Err"
        by_refresh_token == IF arg.refresh_token # {} /\ env.exchange THEN "Ok" ELSE "Err"
        by_user_id == IF arg.user_id # {} /\ kSecret # {} /\ env.custom THEN "Ok" ELSE "Err"
        sent1 == IF arg.refresh_token # {} THEN <<"refresh">> ELSE <<>>
        sent2 == IF arg.user_id # {} /\ kSecret # {} THEN sent1 \o <<"custom">> ELSE sent1
    IN  IF by_access_token = "Ok"
        THEN [sent |-> <<>>,
              out |-> NewOk("uid_of_token", CHOOSE t \in arg.firebase_tokenid : TRUE,
                            arg.refresh_token)]
        ELSE IF by_refresh_token = "Ok"
        THEN [sent |-> sent1, out |-> NewOk("uid_of_refresh", "new_id_token", {"rotated"})]
        ELSE IF by_user_id = "Ok"
        THEN [sent |-> sent2,
              out |-> NewOk(CHOOSE u \in arg.user_id : TRUE, "new_id_token", {"fresh"})]
        ELSE [sent |-> sent2, out |-> NewErr("No parameter given")]

\* Session::new(&credentials, user_id, firebase_tokenid, refresh_token).  An
\* expired token never verifies; a token endpoint may refuse any request.
UNewCall ==
    \E user_id \in {{}, {"alice"}, {"bob"}},
       firebase_tokenid \in {{}, {"valid_token"}, {"expired_token"}},
       refresh_token \in {{}, {"refresh_1"}, {"refresh_2"}},
       verify \in BOOLEAN, exchange \in BOOLEAN, custom \in BOOLEAN :
      LET arg == [user_id |-> user_id, firebase_tokenid |-> firebase_tokenid,
                  refresh_token |-> refresh_token]
          env == [verify |-> verify /\ firebase_tokenid = {"valid_token"},
                  exchange |-> exchange, custom |-> custom]
          r == SessionNew(arg, env)
      IN  /\ uNew' = [pc |-> "returned", arg |-> arg, env |-> env, sent |-> r.sent, out |-> r.out]
          /\ UNCHANGED <<now, saVars, uVars, vVars, mVars, dVars, pem, list, locks>>

NextNew == UNewCall

\* Credentials with or without their secret, and no call yet.
InitNew ==
    /\ InitOthers
    /\ kPub = NoKeys /\ kExpires = {} /\ vPc = "idle" /\ vCall = NoCall /\ vResult = NoResult
    /\ kSecret \in {{}, {CredKeyPair}}
    /\ pem = Idle /\ uNew = Idle /\ locks = Idle /\ list = Idle

SpecNew == InitNew /\ [][NextNew]_vars

\* C22: Session::new tries access token, refresh token and user id in this
\* order and returns the first session it gets: (1) a given access token that
\* verifies gives its session, with the given refresh token and without any
\* exchange request; (2) otherwise a given refresh token whose exchange
\* succeeds gives that session, the only request sent; (3) otherwise a given
\* user id whose custom-token exchange succeeds gives that session; (4)
\* otherwise the call returns an error.
C22_SourceOrder ==
    uNew.pc = "returned" =>
        LET a == uNew.arg
            e == uNew.env
            one == a.firebase_tokenid # {} /\ e.verify
            two == ~one /\ a.refresh_token # {} /\ e.exchange
            three == ~one /\ ~two /\ a.user_id # {} /\ kSecret # {} /\ e.custom
        IN  /\ one => /\ uNew.out.res = "Ok"
                      /\ uNew.out.access_token \in a.firebase_tokenid
                      /\ uNew.out.refresh_token = a.refresh_token
                      /\ uNew.sent = <<>>
            /\ two => /\ uNew.out = NewOk("uid_of_refresh", "new_id_token", {"rotated"})
                      /\ uNew.sent = <<"refresh">>
            /\ three => /\ uNew.out.res = "Ok"
                        /\ uNew.out.user_id \in a.user_id
                        /\ uNew.sent[Len(uNew.sent)] = "custom"
            /\ (~one /\ ~two /\ ~three) => uNew.out.res \notin {"Ok"}

\* All three sources were given, the token verified and the endpoints would
\* have answered: the token's session came back and nothing was sent.
C22_Witness ==
    /\ uNew.pc = "returned"
    /\ uNew.arg = [user_id |-> {"alice"}, firebase_tokenid |-> {"valid_token"},
                   refresh_token |-> {"refresh_1"}]
    /\ uNew.env.exchange /\ uNew.env.custom
    /\ kSecret # {}
    /\ uNew.out = NewOk("uid_of_token", "valid_token", {"refresh_1"})
    /\ uNew.sent = <<>>

\* ---------------------------------------------------------------------
\* Token freshness
\* ---------------------------------------------------------------------

\* C23: every non-empty token that access_token() returns has an expiry
\* claim later than the current time.  Stated on the user session: whenever
\* a call of access_token() returns (the task leaves the locked section or
\* the exchange) with a token that is not the empty string, the exp claim of
\* that token is greater than the clock at the return.
C23_TokenFresh ==
    [][\A t \in Tasks :
          (/\ uPc[t] \in {"w_tok", "net"}
           /\ uPc'[t] = "idle"
           /\ uOut'.task = t
           /\ uOut'.value.tag = "jwt")
             => \A e \in uOut'.value.claims.exp : e > now']_vars

\* The same statement for the service-account session: the token a call of
\* access_token() returns expires after the clock at the return.
SATokenFresh ==
    [][\A t \in Tasks :
          (/\ saPc[t] = "ret"
           /\ saPc'[t] = "idle"
           /\ saOut'.task = t
           /\ saOut'.value.tag = "jwt")
             => \A e \in saOut'.value.claims.exp : e > now']_vars

\* ---------------------------------------------------------------------
\* A failed key download
\* ---------------------------------------------------------------------

\* C24: a download_google_jwks that fails leaves the verification-key table
\* as it was before the call, so a token that could be verified before the
\* failed download can still be verified after it: when a verification whose
\* token's key was in the table at the call has ended in a failed download,
\* the table still has that key.
C24_FailedDownloadKeepsKeys ==
    (/\ vPc = "idle"
     /\ vResult.out = Failure("DownloadFailed")
     /\ vResult.held)
       => DecodedSecret(kPub, vResult.token) # {}

\* ---------------------------------------------------------------------
\* service_account::Session with a signer that can fail
\* ---------------------------------------------------------------------

\* jwt.clone().encode(secret) answers Err (or the secret is None, or
\* v.encoded() is Err): .ok() / and_then make maybe_jwt None, the
\* `if let Some(v)` block is skipped and the stored string is cloned as it
\* is.  jwt_update_expiry_if has already written iat and exp into the jwt.
SASignFail(t) ==
    /\ saPc[t] = "sign"
    /\ saMaybe' = [saMaybe EXCEPT ![t] = {}]
    /\ saJwtW' = 0
    /\ saPc' = [saPc EXCEPT ![t] = "ret"]
    /\ UNCHANGED <<now, saJwt, saToken, saTokW, saOut, saSigned, uVars, vVars, mVars, dVars, xVars>>

NextSAFail ==
    \/ NextSA
    \/ \E t \in Tasks : SASignFail(t)

SpecSAFail == InitSA /\ [][NextSAFail]_vars

\* C25: whenever no call of access_token() is inside its locked section, the
\* cached token string is the signed encoding of the session's current jwt:
\* the iat and exp in the cached string are those of the stored jwt.  This
\* is to hold after calls in which signing or encoding failed as well.
C25_TokenMatchesJwt ==
    saTokW = 0 => saToken = Encode(saJwt, CredKeyPair)

\* ---------------------------------------------------------------------
\* documents::list: List and AsyncList
\* ---------------------------------------------------------------------

\* Most pages the server of a run has, most documents a page has, and the
\* number of next()/poll_next() calls a run makes.
MaxPages == 2
MaxDocs == 2
MaxCalls == 6

\* dto::Document of a list response: fields is None for a document that has
\* no fields.  The documents of page k are numbered (k-1)*MaxDocs + 1 ...
PageDocuments(k, shape) ==
    [j \in 1..Len(shape) |-> [id |-> (k - 1) * MaxDocs + j, fields |-> shape[j]]]

\* Sequences of booleans of the given length.
BoolSeqs(n) == [1..n -> BOOLEAN]

\* dto::ListDocumentsResponse: documents is None, or a list of 0..MaxDocs
\* documents.
PageShapes == {[documents |-> {}]} \cup
              {[documents |-> {shape}] : shape \in UNION {BoolSeqs(n) : n \in 0..MaxDocs}}

\* A collection as the server pages it: page k carries the token of page k+1
\* unless it is the last one.
Servers ==
    UNION {{[k \in 1..n |->
               [documents |-> {PageDocuments(k, s) : s \in shapes[k].documents},
                next_page_token |-> IF k < n THEN {k + 1} ELSE {}]] :
            shapes \in [1..n -> PageShapes]} : n \in 1..MaxPages}

\* list() / list_async(): no page token, no documents, current 0, not done.
\* server, calls, reqs (the page token of each request sent), yielded (the ids
\* of the documents returned), out (what the last call returned), errs and
\* ended (a call has returned None) record the run.
NewList(kind, server) ==
    [pc |-> "ready", kind |-> kind, server |-> server,
     next_page_token |-> {}, documents |-> <<>>, current |-> 0, done |-> FALSE,
     calls |-> 0, reqs |-> <<>>, yielded |-> <<>>, out |-> "start", errs |-> 0,
     ended |-> FALSE]

\* The request always asks for the first page.
RequestTokenFirstPage(l) == {}

\* format!("{}pageToken={}", url, next_page_token) or the plain url
RequestToken(l) == l.next_page_token

\* What the network can answer to a request for the page of a token: the
\* page, or an error (get_new_data returns Err); for the stream polled once
\* by poll_next also Pending.
Answers(l) ==
    LET k == IF RequestToken(l) = {} THEN 1 ELSE CHOOSE k \in RequestToken(l) : TRUE
    IN  {[res |-> r, page |-> l.server[k]] :
           r \in IF l.kind = "sync" THEN {"ok", "err"} ELSE {"ok", "err", "pending"}}

\* The block entered when documents.len() <= current.
Fetch(l, ans) ==
    IF ans.res = "pending" THEN [l EXCEPT !.out = "pending"]
    ELSE IF ans.res = "err" THEN [l EXCEPT !.done = TRUE, !.out = "err"]
    ELSE IF ans.page.documents = {} THEN [l EXCEPT !.out = "none"]
    ELSE [l EXCEPT !.documents = CHOOSE d \in ans.page.documents : TRUE,
                   !.current = 0,
                   !.next_page_token = ans.page.next_page_token,
                   !.out = "fetched"]

\* documents.get(current).unwrap(), current += 1, the done test, and
\* document_to_pod(doc), whose fields.as_ref().unwrap() panics as well.
Yield(l) ==
    IF Len(l.documents) <= l.current
    THEN [l EXCEPT !.pc = "panicked", !.out = "panic"]
    ELSE LET doc == l.documents[l.current + 1]
             stepped == [l EXCEPT !.current = @ + 1,
                                  !.done = (Len(l.documents) <= l.current + 1
                                            /\ l.next_page_token = {})]
         IN  IF doc.fields
             THEN [stepped EXCEPT !.out = "doc", !.yielded = Append(@, doc.id)]
             ELSE [stepped EXCEPT !.pc = "panicked", !.out = "panic"]

\* The body shared by List::next and AsyncList::poll_next.
NextItem(l, ans) ==
    IF l.done THEN [l EXCEPT !.out = "none"]
    ELSE IF Len(l.documents) <= l.current
    THEN LET fetched == Fetch([l EXCEPT !.reqs = Append(@, RequestToken(l))], ans)
         IN  IF fetched.out = "fetched" THEN Yield(fetched) ELSE fetched
    ELSE Yield(l)

\* The record of the run after a call.
Recorded(l) ==
    [l EXCEPT !.calls = @ + 1,
              !.errs = IF l.out = "err" THEN @ + 1 ELSE @,
              !.ended = (@ \/ l.out = "none")]

\* List::next(&mut self)
ListNext ==
    /\ list.pc = "ready"
    /\ list.kind = "sync"
    /\ list.calls < MaxCalls
    /\ \E ans \in Answers(list) : list' = Recorded(NextItem(list, ans))
    /\ UNCHANGED <<now, saVars, uVars, vVars, mVars, dVars, pem, uNew, locks>>

\* AsyncList::poll_next(self: Pin<&mut Self>, cx): `let mut s = (*self).clone()`
\* and every assignment after it is made to s, which is dropped at the
\* return; self keeps next_page_token, documents, current and done.
PollNext ==
    /\ list.pc = "ready"
    /\ list.kind = "async"
    /\ list.calls < MaxCalls
    /\ \E ans \in Answers(list) :
          LET s == Recorded(NextItem(list, ans))
          IN  list' = [s EXCEPT !.next_page_token = list.next_page_token,
                                !.documents = list.documents,
                                !.current = list.current,
                                !.done = list.done]
    /\ UNCHANGED <<now, saVars, uVars, vVars, mVars, dVars, pem, uNew, locks>>

NextList == ListNext \/ PollNext

InitList ==
    /\ InitOthers
    /\ InitCredentials
    /\ pem = Idle /\ uNew = Idle /\ locks = Idle
    /\ \E kind \in {"sync", "async"}, server \in Servers : list = NewList(kind, server)

SpecList == InitList /\ [][NextList]_vars

\* The ids of a server's documents, page after page.
RECURSIVE DocsUpTo(_, _)
DocsUpTo(server, n) ==
    IF n = 0 THEN <<>>
    ELSE DocsUpTo(server, n - 1)
         \o (IF server[n].documents = {} THEN <<>>
             ELSE LET docs == CHOOSE d \in server[n].documents : TRUE
                  IN  [j \in 1..Len(docs) |-> docs[j].id])

AllDocs(server) == DocsUpTo(server, Len(server))

\* Every page of the collection carries documents, and every document has
\* fields.
PagesOfDocuments(server) ==
    \A k \in 1..Len(server) :
       /\ server[k].documents # {}
       /\ \A docs \in server[k].documents :
             Len(docs) > 0 /\ \A j \in 1..Len(docs) : docs[j].fields

IsPrefix(s, t) == Len(s) <= Len(t) /\ \A i \in 1..Len(s) : s[i] = t[i]

\* C26: an AsyncList polled repeatedly yields each document of each page
\* once, in order, and the position, page token and done flag that one
\* poll_next changes are the ones the next poll_next sees: the documents
\* yielded so far are a prefix of the collection's documents, a poll that
\* yields a document moves the position the stream keeps, and a poll that
\* yields an error leaves the stream done.
C26_AsyncProgress ==
    /\ []((list.kind = "async" /\ PagesOfDocuments(list.server))
             => IsPrefix(list.yielded, AllDocs(list.server)))
    /\ [][(list.kind = "async" /\ PagesOfDocuments(list.server)
           /\ list'.calls = list.calls + 1)
             => /\ list'.out = "doc"
                     => <<list'.documents, list'.current>> # <<list.documents, list.current>>
                /\ list'.out = "err" => list'.done]_vars

C28_TotalAndFused ==
    /\ [](list.kind = "sync" => list.pc # "panicked")
    /\ [][(list.kind = "sync" /\ list.ended /\ list'.calls = list.calls + 1)
             => (list'.out = "none" /\ list'.reqs = list.reqs)]_vars

\* ---------------------------------------------------------------------
\* The conversion entry points on every input
\* ---------------------------------------------------------------------

\* pod_to_document(&pod) of any serializable value:
\* serde_value_to_firebase_value(&v).map_value.unwrap() panics when the
\* value is not an object, for map_value is then None.
EntryPodToDocument ==
    /\ codec.pc = "host"
    /\ IF SerdeValueToFirebaseValue(codec.host).map_value = {}
       THEN codec' = [codec EXCEPT !.pc = "panicked"]
       ELSE codec' = [codec EXCEPT !.pc = "written", !.doc = PodToDocument(codec.host),
                                   !.ty = {[k |-> e.k, ty |-> "Value"] : e \in codec.host.obj}]
    /\ UNCHANGED <<now, saVars, uVars, vVars, mVars, dStore, dOut, xVars>>

\* document_to_pod::<T>(&doc) of any document: document.fields.as_ref().unwrap()
\* panics when the document has no fields map.
EntryDocumentToPod ==
    /\ codec.pc \in {"written", "received"}
    /\ IF codec.doc.fields = {}
       THEN codec' = [codec EXCEPT !.pc = "panicked"]
       ELSE codec' = [codec EXCEPT !.pc = IF codec.pc = "written" THEN "reread" ELSE "read",
                                   !.pod = DocumentToPod(codec.doc, codec.ty)]
    /\ UNCHANGED <<now, saVars, uVars, vVars, mVars, dStore, dOut, xVars>>

NextEntry == EntryPodToDocument \/ EntryDocumentToPod

\* Any host value is handed to pod_to_document; any server document, one
\* without fields included, to document_to_pod.
InitEntry ==
    /\ now = 0
    /\ mOut = NoMint
    /\ InitSASession
    /\ InitUserIdle
    /\ InitCredentials
    /\ dStore = EmptyStore /\ dOut = NoDocOp
    /\ pem = Idle /\ uNew = Idle /\ locks = Idle /\ list = Idle
    /\ \/ \E x \in HostValues : codec = [NoCodec EXCEPT !.pc = "host", !.host = x]
       \/ \E d \in ServerDocuments \cup {[name |-> DocumentName, fields |-> {}]},
             ty \in {"i64", "Option<i64>", "Value"} :
             codec = [NoCodec EXCEPT !.pc = "received", !.doc = d,
                                     !.ty = {[k |-> "an_int", ty |-> ty]}]

SpecEntry == InitEntry /\ [][NextEntry]_vars

\* C29: document_to_pod and pod_to_document return (a value or an error)
\* on every input; neither panics, be it on a document without fields map or
\* on a record that does not serialize to an object.
C29_EntryPointsTotal ==
    codec.pc # "panicked"

\* ---------------------------------------------------------------------
\* The locks of a service-account session and its credentials
\* ---------------------------------------------------------------------

\* Tasks call access_token(), access_token_unchecked() and verify_token() on
\* one session and download_google_jwks() and create_jwt_encoded() on its
\* credentials.  access_token_, jwt and keys name the task that holds the
\* lock (0: free), pc the place of each task, op the call it is in.  What a
\* branch depends on (the age of the jwt, the expiry of the keys, the
\* network's answer) is any of its values here.
LockOps == {"access_token", "access_token_unchecked", "verify_token",
            "download_google_jwks", "create_jwt_encoded"}

FirstPc(op) ==
    IF op = "access_token" THEN "at_tok"
    ELSE IF op = "access_token_unchecked" THEN "un_tok"
    ELSE IF op = "verify_token" THEN "ds_keys"
    ELSE IF op = "download_google_jwks" THEN "dl_keys"
    ELSE "cj_keys"

InitLocksState ==
    locks = [pc |-> [t \in Tasks |-> "idle"], op |-> [t \in Tasks |-> "none"],
             access_token_ |-> 0, jwt |-> 0, keys |-> 0]

LCall(t) ==
    /\ locks.pc[t] = "idle"
    /\ \E op \in LockOps :
          locks' = [locks EXCEPT !.pc[t] = FirstPc(op), !.op[t] = op]
    /\ UNCHANGED <<now, saVars, uVars, vVars, mVars, dVars, pem, uNew, list>>

\* access_token(): self.access_token_.write().await
ATLockToken(t) ==
    /\ locks.pc[t] = "at_tok"
    /\ locks.access_token_ = 0
    /\ locks' = [locks EXCEPT !.access_token_ = t, !.pc[t] = "at_jwt"]
    /\ UNCHANGED <<now, saVars, uVars, vVars, mVars, dVars, pem, uNew, list>>

\* self.jwt.write().await
ATLockJwt(t) ==
    /\ locks.pc[t] = "at_jwt"
    /\ locks.jwt = 0
    /\ locks' = [locks EXCEPT !.jwt = t, !.pc[t] = "at_upd"]
    /\ UNCHANGED <<now, saVars, uVars, vVars, mVars, dVars, pem, uNew, list>>

\* jwt_update_expiry_if(&mut jwt, 50): true goes on to the keys, false ends
\* the block and drops the jwt guard.
ATUpdateExpiry(t) ==
    /\ locks.pc[t] = "at_upd"
    /\ \E stale \in BOOLEAN :
          locks' = IF stale THEN [locks EXCEPT !.pc[t] = "at_keys"]
                   ELSE [locks EXCEPT !.jwt = 0, !.pc[t] = "at_ret"]
    /\ UNCHANGED <<now, saVars, uVars, vVars, mVars, dVars, pem, uNew, list>>

\* self.credentials.keys ... .await: the guard of the key store
ATLockKeys(t) ==
    /\ locks.pc[t] = "at_keys"
    /\ locks.keys = 0
    /\ locks' = [locks EXCEPT !.keys = t, !.pc[t] = "at_sign"]
    /\ UNCHANGED <<now, saVars, uVars, vVars, mVars, dVars, pem, uNew, list>>

\* the jwt is signed; the guard of the keys is dropped at the end of the
\* statement and the guard of the jwt at the end of the block
ATSign(t) ==
    /\ locks.pc[t] = "at_sign"
    /\ locks' = [locks EXCEPT !.keys = 0, !.jwt = 0, !.pc[t] = "at_ret"]
    /\ UNCHANGED <<now, saVars, uVars, vVars, mVars, dVars, pem, uNew, list>>

\* the string is stored and cloned, the write guard dropped
ATReturn(t) ==
    /\ locks.pc[t] = "at_ret"
    /\ locks' = [locks EXCEPT !.access_token_ = 0, !.pc[t] = "idle", !.op[t] = "none"]
    /\ UNCHANGED <<now, saVars, uVars, vVars, mVars, dVars, pem, uNew, list>>

\* access_token_unchecked(): self.access_token_.read().await.clone()
LUncheckedRead(t) ==
    /\ locks.pc[t] = "un_tok"
    /\ locks.access_token_ = 0
    /\ locks' = [locks EXCEPT !.pc[t] = "idle", !.op[t] = "none"]
    /\ UNCHANGED <<now, saVars, uVars, vVars, mVars, dVars, pem, uNew, list>>

\* decode_secret: let keys = self.keys.lock().await, in the block that
\* computes should_refresh
DSLockKeys(t) ==
    /\ locks.pc[t] = "ds_keys"
    /\ locks.keys = 0
    /\ locks' = [locks EXCEPT !.keys = t, !.pc[t] = "ds_check"]
    /\ UNCHANGED <<now, saVars, uVars, vVars, mVars, dVars, pem, uNew, list>>

\* decode_secret went on with the guard of its first block still alive.
ShouldRefreshGuardKept == FALSE

\* The guard taken for should_refresh is local to the block and dropped at
\* its end, before download_google_jwks or the lookup lock the keys again.
ShouldRefreshGuardDropped == TRUE

DSShouldRefresh(t) ==
    /\ locks.pc[t] = "ds_check"
    /\ \E should_refresh \in BOOLEAN :
          locks' = [locks EXCEPT !.keys = IF ShouldRefreshGuardDropped THEN 0 ELSE t,
                                 !.pc[t] = IF should_refresh THEN "dl_keys" ELSE "ds_get"]
    /\ UNCHANGED <<now, saVars, uVars, vVars, mVars, dVars, pem, uNew, list>>

\* download_google_jwks: let mut keys = self.keys.lock().await; the first
\* request is sent with the guard held.
DLLockKeys(t) ==
    /\ locks.pc[t] = "dl_keys"
    /\ locks.keys = 0
    /\ locks' = [locks EXCEPT !.keys = t, !.pc[t] = "dl_net1"]
    /\ UNCHANGED <<now, saVars, uVars, vVars, mVars, dVars, pem, uNew, list>>

\* The network answers a download: the first answer leads to the second
\* request, the second to the return; a failure returns with `?`.  The guard
\* is dropped at the return, and decode_secret goes on to its lookup.
DLAnswer(t) ==
    /\ locks.pc[t] \in {"dl_net1", "dl_net2"}
    /\ \E ok \in BOOLEAN :
          locks' = IF ok /\ locks.pc[t] = "dl_net1"
                   THEN [locks EXCEPT !.pc[t] = "dl_net2"]
                   ELSE IF ok /\ locks.op[t] = "verify_token"
                   THEN [locks EXCEPT !.keys = 0, !.pc[t] = "ds_get"]
                   ELSE [locks EXCEPT !.keys = 0, !.pc[t] = "idle", !.op[t] = "none"]
    /\ UNCHANGED <<now, saVars, uVars, vVars, mVars, dVars, pem, uNew, list>>

\* self.keys.lock().await.pub_key.get(kid): locked for the statement; the
\* rest of verify_access_token takes no lock.
DSGet(t) ==
    /\ locks.pc[t] = "ds_get"
    /\ locks.keys = 0
    /\ locks' = [locks EXCEPT !.pc[t] = "idle", !.op[t] = "none"]
    /\ UNCHANGED <<now, saVars, uVars, vVars, mVars, dVars, pem, uNew, list>>

\* create_jwt_encoded: credentials.keys.lock().await
CJLockKeys(t) ==
    /\ locks.pc[t] = "cj_keys"
    /\ locks.keys = 0
    /\ locks' = [locks EXCEPT !.keys = t, !.pc[t] = "cj_sign"]
    /\ UNCHANGED <<now, saVars, uVars, vVars, mVars, dVars, pem, uNew, list>>

\* the token is signed and returned, the guard dropped
CJSign(t) ==
    /\ locks.pc[t] = "cj_sign"
    /\ locks' = [locks EXCEPT !.keys = 0, !.pc[t] = "idle", !.op[t] = "none"]
    /\ UNCHANGED <<now, saVars, uVars, vVars, mVars, dVars, pem, uNew, list>>

\* A step of a call in progress.
LStep(t) ==
    \/ ATLockToken(t)
    \/ ATLockJwt(t)
    \/ ATUpdateExpiry(t)
    \/ ATLockKeys(t)
    \/ ATSign(t)
    \/ ATReturn(t)
    \/ LUncheckedRead(t)
    \/ DSLockKeys(t)
    \/ DSShouldRefresh(t)
    \/ DLLockKeys(t)
    \/ DLAnswer(t)
    \/ DSGet(t)
    \/ CJLockKeys(t)
    \/ CJSign(t)

NextLocks ==
    \E t \in Tasks :
       \/ LCall(t)
       \/ LStep(t)

InitLocks ==
    /\ InitOthers
    /\ InitCredentials
    /\ pem = Idle /\ uNew = Idle /\ list = Idle
    /\ InitLocksState

\* tokio's locks are fair (waiters are served in order) and the runtime
\* polls every task that can go on; the network answers every request.
SpecLocks ==
    InitLocks /\ [][NextLocks]_vars /\ \A t \in Tasks : SF_vars(LStep(t))

\* The lock a task waits for, and the task that holds it (0: none).
WaitsFor(t) ==
    IF locks.pc[t] \in {"at_tok", "un_tok"} THEN locks.access_token_
    ELSE IF locks.pc[t] = "at_jwt" THEN locks.jwt
    ELSE IF locks.pc[t] \in {"at_keys", "ds_keys", "dl_keys", "ds_get", "cj_keys"} THEN locks.keys
    ELSE 0

RECURSIVE WaitChain(_, _)
WaitChain(t, n) == IF n = 0 \/ t = 0 THEN t ELSE WaitChain(WaitsFor(t), n - 1)

\* C30: no task holds a lock while it waits for a lock held by a task that
\* (directly or through others) waits for it; a task that waits for the
\* token cache holds neither the jwt nor the keys, one that waits for the
\* jwt does not hold the keys (the order is token cache, jwt, key store);
\* and every call in progress returns.
C30_DeadlockFree ==
    /\ [](\A t \in Tasks :
            /\ \A n \in 1..NumTasks : WaitChain(t, n) # t
            /\ locks.pc[t] \in {"at_tok", "un_tok"} => (locks.jwt # t /\ locks.keys # t)
            /\ locks.pc[t] = "at_jwt" => locks.keys # t)
    /\ \A t \in Tasks : (locks.pc[t] # "idle") ~> (locks.pc[t] = "idle")

\* One task is inside access_token() with the three locks while another
\* waits for the key store in verify_token().
C30_Witness ==
    \E t1, t2 \in Tasks :
       /\ locks.pc[t1] = "at_sign"
       /\ locks.access_token_ = t1 /\ locks.jwt = t1 /\ locks.keys = t1
       /\ locks.pc[t2] \in {"ds_keys", "dl_keys", "ds_get"}
       /\ WaitsFor(t2) = t1

====
